---- MODULE Spec2Model ----
(***************************************************************************)
(* A model of @rubriclab/actions: typed actions, the structural identity   *)
(* of their types, the chain executor that resolves an invocation tree,    *)
(* and the exporter of the JSON-schema document.                           *)
(*                                                                         *)
(* JavaScript strings are sequences of one-character strings, so that the  *)
(* code's string building, sorting and number conversions are computed     *)
(* rather than assumed.  Names used as keys are TLA+ strings; Spell gives  *)
(* their characters.                                                       *)
(***************************************************************************)
EXTENDS Integers, Sequences, FiniteSets, TLC

(***************************************************************************)
(* Strings                                                                 *)
(***************************************************************************)

\* The characters in use, in UTF-16 code unit order (the order of Array.prototype.sort).
Alphabet ==
    <<" ", "\"", "#", "$", ",", "-", ".", "/",
      "0", "1", "2", "3", "4", "5", "6", "7", "8", "9", ":",
      "A", "B", "C", "D", "E", "F", "G", "H", "I", "J", "K", "L", "M",
      "N", "O", "P", "Q", "R", "S", "T", "U", "V", "W", "X", "Y", "Z",
      "[", "]", "_",
      "a", "b", "c", "d", "e", "f", "g", "h", "i", "j", "k", "l", "m",
      "n", "o", "p", "q", "r", "s", "t", "u", "v", "w", "x", "y", "z", "{", "}">>

Code(c) == CHOOSE i \in 1..Len(Alphabet) : Alphabet[i] = c

\* F(v), where v is evaluated once.  (Inside ENABLED, which the fairness conditions
\* need, TLC evaluates an operator's argument again at every use.)
Once(v, F(_)) == CHOOSE y \in {F(x) : x \in {v}} : TRUE

Spell(w) ==
    CASE w = "string" -> <<"s", "t", "r", "i", "n", "g">>
      [] w = "number" -> <<"n", "u", "m", "b", "e", "r">>
      [] w = "boolean" -> <<"b", "o", "o", "l", "e", "a", "n">>
      [] w = "void" -> <<"v", "o", "i", "d">>
      [] w = "unknown" -> <<"u", "n", "k", "n", "o", "w", "n">>
      [] w = "object" -> <<"o", "b", "j", "e", "c", "t">>
      [] w = "union" -> <<"u", "n", "i", "o", "n">>
      [] w = "enum" -> <<"e", "n", "u", "m">>
      [] w = "array" -> <<"a", "r", "r", "a", "y">>
      [] w = "literal" -> <<"l", "i", "t", "e", "r", "a", "l">>
      [] w = "native_enum" -> <<"n", "a", "t", "i", "v", "e", "_", "e", "n", "u", "m">>
      [] w = "or" -> <<"o", "r">>
      [] w = "Schema" -> <<"S", "c", "h", "e", "m", "a">>
      [] w = "type" -> <<"t", "y", "p", "e">>
      [] w = "id" -> <<"i", "d">>
      [] w = "action" -> <<"a", "c", "t", "i", "o", "n">>
      [] w = "params" -> <<"p", "a", "r", "a", "m", "s">>
      [] w = "text" -> <<"t", "e", "x", "t">>
      [] w = "num" -> <<"n", "u", "m">>
      [] w = "search" -> <<"s", "e", "a", "r", "c", "h">>
      [] w = "to" -> <<"t", "o">>
      [] w = "content" -> <<"c", "o", "n", "t", "e", "n", "t">>
      [] w = "event" -> <<"e", "v", "e", "n", "t">>
      [] w = "color" -> <<"c", "o", "l", "o", "r">>
      [] w = "kind" -> <<"k", "i", "n", "d">>
      [] w = "googleContactId" -> <<"g", "o", "o", "g", "l", "e", "C", "o", "n", "t", "a", "c", "t", "I", "d">>
      [] w = "facebookContactId" -> <<"f", "a", "c", "e", "b", "o", "o", "k", "C", "o", "n", "t", "a", "c", "t", "I", "d">>
      [] w = "stringToNumber" -> <<"s", "t", "r", "i", "n", "g", "T", "o", "N", "u", "m", "b", "e", "r">>
      [] w = "numberToString" -> <<"n", "u", "m", "b", "e", "r", "T", "o", "S", "t", "r", "i", "n", "g">>
      [] w = "getFirstGoogleContactFromSearch" -> <<"g", "e", "t", "F", "i", "r", "s", "t", "G", "o", "o", "g", "l", "e", "C", "o", "n", "t", "a", "c", "t", "F", "r", "o", "m", "S", "e", "a", "r", "c", "h">>
      [] w = "getFirstFacebookContactFromSearch" -> <<"g", "e", "t", "F", "i", "r", "s", "t", "F", "a", "c", "e", "b", "o", "o", "k", "C", "o", "n", "t", "a", "c", "t", "F", "r", "o", "m", "S", "e", "a", "r", "c", "h">>
      [] w = "lookupGoogleContact" -> <<"l", "o", "o", "k", "u", "p", "G", "o", "o", "g", "l", "e", "C", "o", "n", "t", "a", "c", "t">>
      [] w = "sendEmail" -> <<"s", "e", "n", "d", "E", "m", "a", "i", "l">>
      [] w = "trackEvent" -> <<"t", "r", "a", "c", "k", "E", "v", "e", "n", "t">>
      [] w = "paint" -> <<"p", "a", "i", "n", "t">>
      [] w = "doesNotExist" -> <<"d", "o", "e", "s", "N", "o", "t", "E", "x", "i", "s", "t">>
      [] w = "abc" -> <<"a", "b", "c">>
      [] w = "hi" -> <<"h", "i">>
      [] w = "NaN" -> <<"N", "a", "N">>
      [] w = "..." -> <<".", ".", ".">>
      [] w = "[object Object]" -> <<"[", "o", "b", "j", "e", "c", "t", " ", "O", "b", "j", "e", "c", "t", "]">>
      [] w = "name" -> <<"n", "a", "m", "e">>
      [] w = "email" -> <<"e", "m", "a", "i", "l">>
      [] w = "contact" -> <<"c", "o", "n", "t", "a", "c", "t">>
      [] w = "red" -> <<"r", "e", "d">>
      [] w = "green" -> <<"g", "r", "e", "e", "n">>
      [] w = "Action" -> <<"A", "c", "t", "i", "o", "n">>
      [] w = "tint" -> <<"t", "i", "n", "t">>
      [] w = "describeContact" -> <<"d", "e", "s", "c", "r", "i", "b", "e", "C", "o", "n", "t", "a", "c", "t">>
      [] w = "properties" -> <<"p", "r", "o", "p", "e", "r", "t", "i", "e", "s">>
      [] w = "required" -> <<"r", "e", "q", "u", "i", "r", "e", "d">>
      [] w = "additionalProperties" -> <<"a", "d", "d", "i", "t", "i", "o", "n", "a", "l", "P", "r", "o", "p", "e", "r", "t", "i", "e", "s">>
      [] w = "$schema" -> <<"$", "s", "c", "h", "e", "m", "a">>
      [] w = "http://json-schema.org/draft-07/schema#" -> <<"h", "t", "t", "p", ":", "/", "/", "j", "s", "o", "n", "-", "s", "c", "h", "e", "m", "a", ".", "o", "r", "g", "/", "d", "r", "a", "f", "t", "-", "0", "7", "/", "s", "c", "h", "e", "m", "a", "#">>
      [] w = "const" -> <<"c", "o", "n", "s", "t">>
      [] w = "anyOf" -> <<"a", "n", "y", "O", "f">>
      [] w = "$ref" -> <<"$", "r", "e", "f">>
      [] w = "definitions" -> <<"d", "e", "f", "i", "n", "i", "t", "i", "o", "n", "s">>
      [] w = "execution" -> <<"e", "x", "e", "c", "u", "t", "i", "o", "n">>
      [] w = "format" -> <<"f", "o", "r", "m", "a", "t">>
      [] w = "date-time" -> <<"d", "a", "t", "e", "-", "t", "i", "m", "e">>
      [] w = "description" -> <<"d", "e", "s", "c", "r", "i", "p", "t", "i", "o", "n">>
      [] w = "json_schema" -> <<"j", "s", "o", "n", "_", "s", "c", "h", "e", "m", "a">>
      [] w = "strict" -> <<"s", "t", "r", "i", "c", "t">>
      [] w = "schema" -> <<"s", "c", "h", "e", "m", "a">>
      [] w = "#/definitions/" -> <<"#", "/", "d", "e", "f", "i", "n", "i", "t", "i", "o", "n", "s", "/">>
      [] w = "ActionUnionThatOutputs_" -> <<"A", "c", "t", "i", "o", "n", "U", "n", "i", "o", "n", "T", "h", "a", "t", "O", "u", "t", "p", "u", "t", "s", "_">>
      [] w = "ActionUnion" -> <<"A", "c", "t", "i", "o", "n", "U", "n", "i", "o", "n">>
      [] w = "items" -> <<"i", "t", "e", "m", "s">>
      [] w = "true" -> <<"t", "r", "u", "e">>
      [] w = "false" -> <<"f", "a", "l", "s", "e">>
      [] w = "noOutput" -> <<"n", "o", "O", "u", "t", "p", "u", "t">>
      [] w = "enumOfTwo" -> <<"e", "n", "u", "m", "O", "f", "T", "w", "o">>
      [] w = "enumOfOne" -> <<"e", "n", "u", "m", "O", "f", "O", "n", "e">>
      [] w = "nestInside" -> <<"n", "e", "s", "t", "I", "n", "s", "i", "d", "e">>
      [] w = "nestBeside" -> <<"n", "e", "s", "t", "B", "e", "s", "i", "d", "e">>
      [] w = "twoFields" -> <<"t", "w", "o", "F", "i", "e", "l", "d", "s">>
      [] w = "oneField" -> <<"o", "n", "e", "F", "i", "e", "l", "d">>
      [] w = "p" -> <<"p">>
      [] w = "q" -> <<"q">>
      [] w = "r" -> <<"r">>
      [] w = "a" -> <<"a">>
      [] w = "b" -> <<"b">>
      [] w = "a-string_b" -> <<"a", "-", "s", "t", "r", "i", "n", "g", "_", "b">>
      [] w = "today" -> <<"t", "o", "d", "a", "y">>
      [] w = "trim" -> <<"t", "r", "i", "m">>
      [] w = "ActionUnionThatOutputs_string" -> <<"A", "c", "t", "i", "o", "n", "U", "n", "i", "o", "n", "T", "h", "a", "t", "O", "u", "t", "p", "u", "t", "s", "_", "s", "t", "r", "i", "n", "g">>

RECURSIVE StrLess(_, _)
\* a < b as JavaScript compares strings: by code units, a proper prefix first.
StrLess(a, b) ==
    Once(a, LAMBDA left : Once(b, LAMBDA right :
        IF right = <<>> THEN FALSE
        ELSE IF left = <<>> THEN TRUE
        ELSE IF Head(left) = Head(right) THEN StrLess(Tail(left), Tail(right))
        ELSE Code(Head(left)) < Code(Head(right))))

RECURSIVE Insert(_, _)
Insert(x, sorted) ==
    Once(sorted, LAMBDA list : Once(x, LAMBDA str :
        IF list = <<>> THEN <<str>>
        ELSE IF StrLess(str, Head(list)) THEN <<str>> \o list
        ELSE <<Head(list)>> \o Insert(str, Tail(list))))

RECURSIVE Sort(_)
\* Array.prototype.sort() without a comparator, on an array of strings.
Sort(strs) ==
    Once(strs, LAMBDA list :
     IF list = <<>> THEN <<>> ELSE Insert(Head(list), Sort(Tail(list))))

RECURSIVE Join(_, _)
\* Array.prototype.join(sep)
Join(strs, sep) ==
    Once(strs, LAMBDA list :
        IF list = <<>> THEN <<>>
        ELSE IF Len(list) = 1 THEN list[1]
        ELSE list[1] \o sep \o Join(Tail(list), sep))

(***************************************************************************)
(* JavaScript values                                                       *)
(***************************************************************************)

Num(n) == [k |-> "number", n |-> n]
NaN == [k |-> "NaN"]
Str(s) == [k |-> "string", s |-> s]
Bool(b) == [k |-> "boolean", b |-> b]
Undefined == [k |-> "undefined"]
\* An object: its own enumerable properties in insertion order, <<key, value>> each.
Obj(entries) == [k |-> "object", e |-> entries]

IsObject(v) == v.k = "object"
Keys(v) == [i \in 1..Len(v.e) |-> v.e[i][1]]
\* key in v
Has(v, key) == IsObject(v) /\ \E i \in 1..Len(v.e) : v.e[i][1] = key
\* v[key]
Get(v, key) ==
    IF Has(v, key) THEN v.e[CHOOSE i \in 1..Len(v.e) : v.e[i][1] = key][2] ELSE Undefined

Digits == <<"0", "1", "2", "3", "4", "5", "6", "7", "8", "9">>
IsDigit(c) == \E d \in 1..10 : Digits[d] = c
DigitValue(c) == (CHOOSE d \in 1..10 : Digits[d] = c) - 1

RECURSIVE DecimalOf(_)
\* Number.prototype.toString() of a non-negative integer
DecimalOf(n) == IF n < 10 THEN <<Digits[n + 1]>> ELSE DecimalOf(n \div 10) \o <<Digits[(n % 10) + 1]>>

RECURSIVE ParseDecimal(_, _)
ParseDecimal(s, acc) ==
    IF s = <<>> THEN acc ELSE ParseDecimal(Tail(s), 10 * acc + DigitValue(Head(s)))

\* Number(v): the empty string is 0, a digit string its value, anything else NaN.
NumberJS(v) ==
    IF v.k = "number" THEN v
    ELSE IF v.k = "string" THEN
        IF \A i \in 1..Len(v.s) : IsDigit(v.s[i]) THEN Num(ParseDecimal(v.s, 0)) ELSE NaN
    ELSE IF v.k = "boolean" THEN Num(IF v.b THEN 1 ELSE 0)
    ELSE NaN

\* v.toString() of a value that has the method (undefined has none: see Throws)
ToStringJS(v) ==
    IF v.k = "number" THEN Str(DecimalOf(v.n))
    ELSE IF v.k = "NaN" THEN Str(<<"N", "a", "N">>)
    ELSE IF v.k = "string" THEN v
    ELSE IF v.k = "boolean" THEN Str(IF v.b THEN <<"t", "r", "u", "e">> ELSE <<"f", "a", "l", "s", "e">>)
    ELSE Str(<<"[", "o", "b", "j", "e", "c", "t", " ", "O", "b", "j", "e", "c", "t", "]">>)

(***************************************************************************)
(* Zod types.  A type is named by an identifier standing for one declared  *)
(* schema object; TypeDef gives its definition as declared.                *)
(***************************************************************************)

TypeIds ==
    {"Str", "Num", "Bool", "Void", "LitGoogle", "LitFacebook", "GoogleContactId",
     "GoogleContactIdB", "GoogleContactIdC", "FacebookContactId", "Event", "Color", "OptColor", "Date", "Missing",
     "EnumAB", "EnumA_B", "ObjQ", "ObjQR", "NestIn", "NestOut", "FlatAB", "FusedAB"}

TypeDef(t) ==
    CASE t = "Str" -> [kind |-> "string", desc |-> <<>>]
      [] t = "Num" -> [kind |-> "number", desc |-> <<>>]
      [] t = "Bool" -> [kind |-> "boolean", desc |-> <<>>]
      [] t = "Void" -> [kind |-> "void", desc |-> <<>>]
      [] t = "LitGoogle" -> [kind |-> "literal", value |-> Str(Spell("googleContactId")), desc |-> <<>>]
      [] t = "LitFacebook" -> [kind |-> "literal", value |-> Str(Spell("facebookContactId")), desc |-> <<>>]
      [] t = "GoogleContactId" ->
            [kind |-> "object", fields |-> << <<"type", "LitGoogle">>, <<"id", "Str">> >>, desc |-> <<>>]
      \* the same shape declared a second time, fields in the other order
      [] t = "GoogleContactIdB" ->
            [kind |-> "object", fields |-> << <<"id", "Str">>, <<"type", "LitGoogle">> >>, desc |-> <<>>]
      \* the same shape declared a third time, with .describe('contact')
      [] t = "GoogleContactIdC" ->
            [kind |-> "object", fields |-> << <<"type", "LitGoogle">>, <<"id", "Str">> >>,
             desc |-> Spell("contact")]
      [] t = "FacebookContactId" ->
            [kind |-> "object", fields |-> << <<"type", "LitFacebook">>, <<"id", "Str">> >>, desc |-> <<>>]
      [] t = "Event" -> [kind |-> "object", fields |-> << <<"action", "Str">> >>, desc |-> <<>>]
      [] t = "Color" -> [kind |-> "enum", values |-> <<Spell("red"), Spell("green")>>, desc |-> <<>>]
      \* Color.optional()
      [] t = "OptColor" -> [kind |-> "optional", inner |-> "Color", desc |-> <<>>]
      [] t = "Date" -> [kind |-> "date", desc |-> <<>>]
      \* no schema at all: the action was declared without an output
      [] t = "Missing" -> [kind |-> "missing", desc |-> <<>>]
      \* z.enum(['a', 'b']) and z.enum(['a_b'])
      [] t = "EnumAB" -> [kind |-> "enum", values |-> << <<"a">>, <<"b">> >>, desc |-> <<>>]
      [] t = "EnumA_B" -> [kind |-> "enum", values |-> << <<"a", "_", "b">> >>, desc |-> <<>>]
      \* { p: { q: string, r: number } } and { p: { q: string }, r: number }
      [] t = "ObjQ" -> [kind |-> "object", fields |-> << <<"q", "Str">> >>, desc |-> <<>>]
      [] t = "ObjQR" -> [kind |-> "object", fields |-> << <<"q", "Str">>, <<"r", "Num">> >>, desc |-> <<>>]
      [] t = "NestIn" -> [kind |-> "object", fields |-> << <<"p", "ObjQR">> >>, desc |-> <<>>]
      [] t = "NestOut" -> [kind |-> "object", fields |-> << <<"p", "ObjQ">>, <<"r", "Num">> >>, desc |-> <<>>]
      \* { a: string, b: number } and { 'a-string_b': number }
      [] t = "FlatAB" -> [kind |-> "object", fields |-> << <<"a", "Str">>, <<"b", "Num">> >>, desc |-> <<>>]
      [] t = "FusedAB" -> [kind |-> "object", fields |-> << <<"a-string_b", "Num">> >>, desc |-> <<>>]

Ok(v) == [ok |-> TRUE, v |-> v]
Fail == [ok |-> FALSE, v |-> Undefined]

\* The entry <<key, r.v>> before the entries rest.v, if both parses succeeded
Cons(key, r, rest) ==
    Once(r, LAMBDA parsed : Once(rest, LAMBDA others :
     IF parsed.ok /\ others.ok THEN Ok(<< <<key, parsed.v>> >> \o others.v) ELSE Fail))
\* The object of the parsed entries
ObjOf(r) ==
    Once(r, LAMBDA parsed :
     IF parsed.ok THEN Ok(Obj(parsed.v)) ELSE Fail)
\* ZodUnion: the first option that parses
OrElse(r, other) ==
    Once(r, LAMBDA parsed :
     IF parsed.ok THEN parsed ELSE other)

RECURSIVE Parse(_, _)
RECURSIVE ParseFields(_, _)
RECURSIVE ParseAs(_, _)
\* ZodObject: every declared key is parsed, in the order of the shape; the result
\* holds the declared keys only (unknown keys are stripped), in that order.
ParseFields(fields, v) ==
    Once(v, LAMBDA val : Once(fields, LAMBDA declared :
        IF declared = <<>> THEN Ok(<<>>)
        ELSE Cons(Head(declared)[1], Parse(Head(declared)[2], Get(val, Head(declared)[1])),
                  ParseFields(Tail(declared), val))))

\* parse by a schema whose definition is d
ParseAs(d, v) ==
    Once(v, LAMBDA val :
        CASE d.kind = "string" -> IF val.k = "string" THEN Ok(val) ELSE Fail
          [] d.kind = "number" -> IF val.k = "number" THEN Ok(val) ELSE Fail
          [] d.kind = "boolean" -> IF val.k = "boolean" THEN Ok(val) ELSE Fail
          [] d.kind = "void" -> IF val.k = "undefined" THEN Ok(val) ELSE Fail
          [] d.kind = "literal" -> IF val = d.value THEN Ok(val) ELSE Fail
          [] d.kind = "enum" ->
                IF val.k = "string" /\ \E i \in 1..Len(d.values) : d.values[i] = val.s THEN Ok(val) ELSE Fail
          [] d.kind = "object" -> IF IsObject(val) THEN ObjOf(ParseFields(d.fields, val)) ELSE Fail
          [] d.kind = "optional" -> IF val.k = "undefined" THEN Ok(val) ELSE Parse(d.inner, val)
          [] OTHER -> Fail)

\* schema.parse(v) of zod: the parsed value, or failure (a ZodError)
Parse(t, v) == ParseAs(TypeDef(t), v)

(***************************************************************************)
(* Type identity (index.ts)                                                *)
(***************************************************************************)

\* JSON.stringify of a literal's value
JsonOfLiteral(v) ==
    IF v.k = "string" THEN <<"\"">> \o v.s \o <<"\"">> ELSE ToStringJS(v).s

RECURSIVE generateSignature(_)
RECURSIVE FieldSignatures(_)
RECURSIVE SignatureOf(_)
\* `${k}-${generateSignature(v)}` of every entry of the shape, in declared order
FieldSignatures(fields) ==
    IF fields = <<>> THEN <<>>
    ELSE <<Spell(Head(fields)[1]) \o <<"-">> \o generateSignature(Head(fields)[2])>>
         \o FieldSignatures(Tail(fields))

\* The string generateSignature returns.  (It also sorts the values array of every
\* enum it meets, in place: see SortedBySignature.)
SignatureOf(d) ==
    CASE d.kind = "string" -> <<"s", "t", "r", "i", "n", "g">>
      [] d.kind = "number" -> <<"n", "u", "m", "b", "e", "r">>
      [] d.kind = "boolean" -> <<"b", "o", "o", "l", "e", "a", "n">>
      [] d.kind = "literal" -> <<"l", "i", "t", "e", "r", "a", "l", "_">> \o JsonOfLiteral(d.value)
      [] d.kind = "void" -> <<"v", "o", "i", "d">>
      [] d.kind = "object" ->
            <<"o", "b", "j", "e", "c", "t", "_">> \o Join(Sort(FieldSignatures(d.fields)), <<"_">>)
      [] d.kind = "enum" -> <<"e", "n", "u", "m", "_">> \o Join(Sort(d.values), <<"_">>)
      [] OTHER -> <<"u", "n", "k", "n", "o", "w", "n">>

generateSignature(t) == SignatureOf(TypeDef(t))

\* sha1(str) in hex, cut to 8 digits.  The digest is modelled collision-free: the
\* hashed string stands for its own digest.
shortHash(str) == <<"#">> \o str

stableName(t) == <<"S", "c", "h", "e", "m", "a", "_">> \o shortHash(generateSignature(t))

(***************************************************************************)
(* Actions.  ActionDef is the caller's input to createActionsExecutor: the *)
(* sample actions of the README, and more that bring in the cases the      *)
(* samples lack (an output type declared again, an executor that raises,  *)
(* a parameter whose literal type has a field named action, an enum, an    *)
(* optional enum, outputs whose signatures coincide, a date).              *)
(***************************************************************************)

ActionDef(a) ==
    CASE a = "stringToNumber" -> [input |-> << <<"text", "Str">> >>, output |-> "Num"]
      [] a = "numberToString" -> [input |-> << <<"num", "Num">> >>, output |-> "Str"]
      [] a = "getFirstGoogleContactFromSearch" ->
            [input |-> << <<"search", "Str">> >>, output |-> "GoogleContactId"]
      [] a = "getFirstFacebookContactFromSearch" ->
            [input |-> << <<"search", "Str">> >>, output |-> "FacebookContactId"]
      [] a = "sendEmail" ->
            [input |-> << <<"to", "GoogleContactId">>, <<"content", "Str">> >>, output |-> "Bool"]
      [] a = "lookupGoogleContact" -> [input |-> << <<"id", "Str">> >>, output |-> "GoogleContactIdB"]
      [] a = "trackEvent" -> [input |-> << <<"event", "Event">> >>, output |-> "Bool"]
      [] a = "describeContact" -> [input |-> << <<"id", "Str">> >>, output |-> "GoogleContactIdC"]
      [] a = "paint" -> [input |-> << <<"color", "Color">> >>, output |-> "Bool"]
      [] a = "tint" -> [input |-> << <<"color", "OptColor">> >>, output |-> "Bool"]
      [] a = "noOutput" -> [input |-> << <<"id", "Str">> >>, output |-> "Missing"]
      [] a = "enumOfTwo" -> [input |-> << <<"id", "Str">> >>, output |-> "EnumAB"]
      [] a = "enumOfOne" -> [input |-> << <<"id", "Str">> >>, output |-> "EnumA_B"]
      [] a = "nestInside" -> [input |-> << <<"id", "Str">> >>, output |-> "NestIn"]
      [] a = "nestBeside" -> [input |-> << <<"id", "Str">> >>, output |-> "NestOut"]
      [] a = "twoFields" -> [input |-> << <<"id", "Str">> >>, output |-> "FlatAB"]
      [] a = "oneField" -> [input |-> << <<"id", "Str">> >>, output |-> "FusedAB"]
      \* an action whose output is z.date()
      [] a = "today" -> [input |-> <<>>, output |-> "Date"]
      \* an action that takes what it returns
      [] a = "trim" -> [input |-> << <<"text", "Str">> >>, output |-> "Str"]
      \* actions named as the exporter of lib/utils.ts names its unions
      [] a = "ActionUnion" -> [input |-> << <<"id", "Str">> >>, output |-> "Bool"]
      [] a = "ActionUnionThatOutputs_string" -> [input |-> << <<"id", "Str">> >>, output |-> "Str"]

GoogleContact(id) == Obj(<< <<"type", Str(Spell("googleContactId"))>>, <<"id", id>> >>)

\* Whether the executor of action a raises on this input.  lookupGoogleContact fails
\* when the id is not a number; the others raise only where JavaScript does, reading a
\* property of undefined.
Throws(a, input) ==
    CASE a = "numberToString" -> Get(input, "num") = Undefined
      [] a = "sendEmail" -> Get(input, "to") = Undefined
      [] a = "lookupGoogleContact" -> NumberJS(Get(input, "id")) = NaN
      [] OTHER -> FALSE

\* What the executor of action a returns on this input.
Exec(a, input) ==
    CASE a = "stringToNumber" -> NumberJS(Get(input, "text"))
      [] a = "numberToString" -> ToStringJS(Get(input, "num"))
      [] a = "getFirstGoogleContactFromSearch" -> GoogleContact(Str(Spell("...")))
      \* the README's executor returns type: 'googleContactId' here too
      [] a = "getFirstFacebookContactFromSearch" -> GoogleContact(Str(Spell("...")))
      [] a = "sendEmail" -> Bool(TRUE)
      [] a = "lookupGoogleContact" -> GoogleContact(Get(input, "id"))
      [] a = "trackEvent" -> Bool(TRUE)
      [] a = "describeContact" -> GoogleContact(Get(input, "id"))
      [] a = "paint" -> Bool(TRUE)
      [] a = "tint" -> Bool(TRUE)
      [] a = "noOutput" -> Undefined
      [] a = "enumOfTwo" -> Str(<<"a">>)
      [] a = "enumOfOne" -> Str(<<"a", "_", "b">>)
      [] a = "nestInside" ->
            Obj(<< <<"p", Obj(<< <<"q", Get(input, "id")>>, <<"r", Num(3)>> >>)>> >>)
      [] a = "nestBeside" -> Obj(<< <<"p", Obj(<< <<"q", Get(input, "id")>> >>)>>, <<"r", Num(3)>> >>)
      [] a = "twoFields" -> Obj(<< <<"a", Get(input, "id")>>, <<"b", Num(3)>> >>)
      [] a = "oneField" -> Obj(<< <<"a-string_b", Num(3)>> >>)
      [] a = "trim" -> Get(input, "text")
      [] a = "ActionUnion" -> Bool(TRUE)
      [] a = "ActionUnionThatOutputs_string" -> Get(input, "id")

\* The elements of a sequence
Range(seq) == {seq[i] : i \in 1..Len(seq)}

\* actions[name] for the string value `name`: the registered action so spelled, or "".
Lookup(reg, name) ==
    IF name.k = "string" /\ \E a \in Range(reg) : Spell(a) = name.s
    THEN CHOOSE a \in Range(reg) : Spell(a) = name.s
    ELSE ""

RECURSIVE GroupByOutput(_, _)
RECURSIVE GroupByOutputLast(_, _)
\* the grouping with actionsByOutputName[outName] = [name] in place of the push: a
\* later action of an output replaces the earlier ones
GroupByOutputLast(reg, acc) ==
    IF reg = <<>> THEN acc
    ELSE LET name == Head(reg)
             outName == stableName(ActionDef(name).output)
             at == {i \in 1..Len(acc) : acc[i][1] = outName}
         IN GroupByOutputLast(Tail(reg),
                IF at = {} THEN Append(acc, <<outName, <<name>>>>)
                ELSE [i \in 1..Len(acc) |-> IF i \in at THEN <<outName, <<name>>>> ELSE acc[i]])

\* actionsByOutputName: output name -> the names of the actions with that output, every
\* key and every list in registration order.  `acc` is the record built so far.
GroupByOutput(reg, acc) ==
    IF reg = <<>> THEN acc
    ELSE LET name == Head(reg)
             outName == stableName(ActionDef(name).output)
             at == {i \in 1..Len(acc) : acc[i][1] = outName}
         IN GroupByOutput(Tail(reg),
                IF at = {} THEN Append(acc, <<outName, <<name>>>>)
                ELSE [i \in 1..Len(acc) |->
                        IF i \in at THEN <<outName, Append(acc[i][2], name)>> ELSE acc[i]])

\* group[outName] ?? []
Group(group, outName) ==
    Once(outName, LAMBDA name : Once(group, LAMBDA groups :
        IF \E i \in 1..Len(groups) : groups[i][1] = name
        THEN groups[CHOOSE i \in 1..Len(groups) : groups[i][1] = name][2]
        ELSE <<>>))

(***************************************************************************)
(* JSON documents.  An object with fixed keys (JObj) names them by TLA+     *)
(* strings, spelled when the document is serialised; an object with        *)
(* computed keys (JMap) holds their characters.  A string is a Word (a     *)
(* fixed text, spelled when serialised) or a Str of characters.  EnumRef(t)*)
(* is the array def.values of the enum schema t itself, not a copy of it:  *)
(* what it holds is read from the heap when the document is serialised.    *)
(***************************************************************************)

Word(w) == [k |-> "word", w |-> w]
JArr(items) == [k |-> "array", a |-> items]
JObj(members) == [k |-> "json", m |-> members]
JMap(members) == [k |-> "map", m |-> members]
EnumRef(t) == [k |-> "enumref", t |-> t]

\* an array of fixed texts
Words(ws) == JArr([i \in 1..Len(ws) |-> Word(ws[i])])
\* an array of strings
Strs(ss) == JArr([i \in 1..Len(ss) |-> Str(ss[i])])

\* The second argument of JSON.stringify: none, or an array of key names
NoReplacer == [on |-> FALSE, keys |-> <<>>]
Only(keys) == [on |-> TRUE, keys |-> keys]

\* the characters of the i-th key of an object
KeyText(v, i) == IF v.k = "json" THEN Spell(v.m[i][1]) ELSE v.m[i][1]
\* Object.keys(v)
KeyTexts(v) == [i \in 1..Len(v.m) |-> KeyText(v, i)]
\* v[key]
MemberNamed(v, key) == v.m[CHOOSE i \in 1..Len(v.m) : KeyText(v, i) = key][2]

RECURSIVE Present(_, _)
\* the keys of the replacer array that v has, in the order of the array
Present(keys, v) ==
    IF keys = <<>> THEN <<>>
    ELSE (IF \E i \in 1..Len(v.m) : KeyText(v, i) = Head(keys) THEN <<Head(keys)>> ELSE <<>>)
         \o Present(Tail(keys), v)

\* The keys JSON.stringify writes for an object: all of them in insertion order, or,
\* under a replacer array, those of the array (at every depth), in the array's order.
Written(v, replacer) == IF replacer.on THEN Present(replacer.keys, v) ELSE KeyTexts(v)

\* the values JSON.stringify descends into
Below(v, replacer, heap) ==
    CASE v.k = "array" -> v.a
      [] v.k = "enumref" -> Strs(heap[v.t]).a
      [] v.k \in {"json", "map"} ->
            [i \in 1..Len(Written(v, replacer)) |-> MemberNamed(v, Written(v, replacer)[i])]
      [] OTHER -> <<>>

RECURSIVE Escaped(_)
\* the characters of a string as JSON writes them
Escaped(s) ==
    IF Len(s) = 0 THEN <<>>
    ELSE IF Len(s) = 1 THEN (IF s[1] \in {"\"", "\\"} THEN <<"\\", s[1]>> ELSE s)
    ELSE Escaped(SubSeq(s, 1, Len(s) \div 2)) \o Escaped(SubSeq(s, (Len(s) \div 2) + 1, Len(s)))

Quote(s) == <<"\"">> \o Escaped(s) \o <<"\"">>

\* the text of a value, given the texts of the values below it
Render(v, keys, texts) ==
    CASE v.k = "word" -> Quote(Spell(v.w))
      [] v.k = "string" -> Quote(v.s)
      [] v.k = "number" -> DecimalOf(v.n)
      [] v.k = "boolean" -> IF v.b THEN <<"t", "r", "u", "e">> ELSE <<"f", "a", "l", "s", "e">>
      [] v.k \in {"array", "enumref"} -> <<"[">> \o Join(texts, <<",">>) \o <<"]">>
      [] v.k \in {"json", "map"} ->
            <<"{">> \o Join([i \in 1..Len(keys) |-> Quote(keys[i]) \o <<":">> \o texts[i]], <<",">>)
            \o <<"}">>

\* the keys written for v, if it is an object
WrittenIn(v, replacer) == IF v.k \in {"json", "map"} THEN Written(v, replacer) ELSE <<>>

RECURSIVE JSONStringify(_, _, _)
\* JSON.stringify(v, replacer), the arrays of enum values being as the heap has them
JSONStringify(v, replacer, heap) ==
    Render(v, WrittenIn(v, replacer),
           [i \in 1..Len(Below(v, replacer, heap)) |->
                JSONStringify(Below(v, replacer, heap)[i], replacer, heap)])

(***************************************************************************)
(* Type identity (lib/utils.ts)                                            *)
(***************************************************************************)

RECURSIVE parseDef(_)
\* the schemas of the fields of an object type
PropertiesOf(d) ==
    IF d.kind = "object"
    THEN JObj([i \in 1..Len(d.fields) |-> <<d.fields[i][1], parseDef(d.fields[i][2])>>])
    ELSE JObj(<<>>)

\* the names of the fields of a shape, in declared order
FieldNames(fields) == [i \in 1..Len(fields) |-> fields[i][1]]

\* zod-to-json-schema, the members it writes for a type
MainOf(d, properties) ==
    CASE d.kind \in {"string", "number", "boolean"} -> << <<"type", Word(d.kind)>> >>
      [] d.kind = "literal" -> << <<"type", Word(d.value.k)>>, <<"const", d.value>> >>
      [] d.kind = "object" ->
            << <<"type", Word("object")>>, <<"properties", properties>>,
               <<"required", Words(FieldNames(d.fields))>>, <<"additionalProperties", Bool(FALSE)>> >>
      [] d.kind = "enum" -> << <<"type", Word("string")>>, <<"enum", Strs(d.values)>> >>
      [] OTHER -> <<>>

\* zod-to-json-schema, addMeta: the description, where there is one, comes last
addMeta(d, members) ==
    JObj(IF d.desc = <<>> THEN members ELSE Append(members, <<"description", Str(d.desc)>>))

ParseDefOf(d) == addMeta(d, MainOf(d, PropertiesOf(d)))

\* zod-to-json-schema, parseDef: the schema of a type within a document
parseDef(t) == ParseDefOf(TypeDef(t))

\* zodToJsonSchema(schema, { $refStrategy: 'none' }) of zod-to-json-schema
libZodToJsonSchema(t) ==
    JObj(parseDef(t).m \o << <<"$schema", Word("http://json-schema.org/draft-07/schema#")>> >>)

\* sha256(jsonString) in hex, cut to 8 digits.  The digest is modelled collision-free,
\* as in shortHash.  The replacer is the sorted keys of the top-level object.
hashSchema(schemaJson) ==
    <<"#">> \o JSONStringify(schemaJson, Only(Sort(KeyTexts(schemaJson))), <<>>)

\* the name getStableTypeName computes for a schema it has not met
TypeNameOf(d, t) ==
    CASE d.kind \in {"string", "number", "boolean", "void"} -> Spell(d.kind)
      [] d.kind = "object" -> <<"o", "b", "j", "e", "c", "t", "_">> \o hashSchema(libZodToJsonSchema(t))
      [] OTHER -> <<"u", "n", "k", "n", "o", "w", "n">>

\* getStableTypeName(schema), the WeakMap schemaNameCache being `cache` (<<>> where the
\* schema has no entry)
getStableTypeName(t, cache) == IF cache[t] # <<>> THEN cache[t] ELSE TypeNameOf(TypeDef(t), t)

\* schemaNameCache after getStableTypeName has been called on these schemas
Cached(types, cache) ==
    [t \in DOMAIN cache |-> IF t \in types THEN getStableTypeName(t, cache) ELSE cache[t]]

(***************************************************************************)
(* The exporter of index.ts.  The heap gives, for every enum schema, its    *)
(* array def.values as it is now: generateSignature sorts the array itself, *)
(* and zodToJsonSchema puts the array itself into the document.            *)
(***************************************************************************)

\* the enum schemas
EnumTypes == {t \in TypeIds : TypeDef(t).kind = "enum"}

\* the arrays def.values as declared
DeclaredValues == [t \in EnumTypes |-> TypeDef(t).values]

RECURSIVE SortedBySignature(_, _)
RECURSIVE SortedByAll(_, _)
\* the heap after generateSignature has run on every one of these schemas
SortedByAll(types, heap) ==
    Once(types, LAMBDA schemas : Once(heap, LAMBDA arrays :
        IF schemas = <<>> THEN arrays
        ELSE SortedByAll(Tail(schemas), SortedBySignature(Head(schemas), arrays))))

\* the schemas generateSignature descends into
Visits(d) == IF d.kind = "object" THEN [i \in 1..Len(d.fields) |-> d.fields[i][2]] ELSE <<>>

\* def.values.sort()
SortedHere(d, t, heap) ==
    Once(heap, LAMBDA arrays : IF d.kind = "enum" THEN [arrays EXCEPT ![t] = Sort(@)] ELSE arrays)

\* The heap after generateSignature(t): the array of every enum it reaches is sorted.
\* It reaches the fields of an object; an optional is `unknown` to it.
SortedBySignature(t, heap) ==
    Once(heap, LAMBDA arrays : SortedByAll(Visits(TypeDef(t)), SortedHere(TypeDef(t), t, arrays)))

\* the array a copy of def.values would be
EmitEnumCopy(t, heap) == Strs(heap[t])

\* enum: def.values
EmitEnum(t, heap) == EnumRef(t)

\* the schemas zodToJsonSchema descends into
Inner(d) ==
    CASE d.kind = "object" -> [i \in 1..Len(d.fields) |-> d.fields[i][2]]
      [] d.kind = "optional" -> <<d.inner>>
      [] OTHER -> <<>>

\* what zodToJsonSchema returns for a schema, given what it returns for those below
JsonSchemaOf(d, t, heap, below) ==
    CASE d.kind \in {"string", "number", "boolean", "void"} -> JObj(<< <<"type", Word(d.kind)>> >>)
      [] d.kind = "literal" -> JObj(<< <<"type", Word(d.value.k)>>, <<"const", d.value>> >>)
      [] d.kind = "object" ->
            JObj(<< <<"type", Word("object")>>,
                    <<"properties", JObj([i \in 1..Len(d.fields) |-> <<d.fields[i][1], below[i]>>])>>,
                    <<"required", Words(FieldNames(d.fields))>>,
                    <<"additionalProperties", Bool(FALSE)>> >>)
      [] d.kind = "enum" -> JObj(<< <<"type", Word("string")>>, <<"enum", EmitEnum(t, heap)>> >>)
      [] d.kind = "optional" -> below[1]
      [] d.kind = "date" -> JObj(<< <<"type", Word("string")>>, <<"format", Word("date-time")>> >>)
      [] d.kind = "missing" -> JObj(<< <<"type", Word("unknown")>> >>)

RECURSIVE zodToJsonSchema(_, _)
zodToJsonSchema(t, heap) ==
    JsonSchemaOf(TypeDef(t), t, heap,
                 [i \in 1..Len(Inner(TypeDef(t))) |-> zodToJsonSchema(Inner(TypeDef(t))[i], heap)])

\* the output schemas of the registry, in registration order
Outputs(reg) == [i \in 1..Len(reg) |-> ActionDef(reg[i]).output]

RECURSIVE Params(_)
\* the parameter schemas of the registry, in registration order and, within an action,
\* in the order of its shape
Params(reg) ==
    Once(reg, LAMBDA names :
        IF names = <<>> THEN <<>>
        ELSE [i \in 1..Len(ActionDef(Head(names)).input) |-> ActionDef(Head(names)).input[i][2]]
             \o Params(Tail(names)))

\* definitions[key] = value
Put(members, key, value) ==
    IF \E i \in 1..Len(members) : members[i][1] = key
    THEN [i \in 1..Len(members) |-> IF members[i][1] = key THEN <<key, value>> ELSE members[i]]
    ELSE Append(members, <<key, value>>)

\* if (!definitions[name]) definitions[name] = value
PutIfAbsent(members, key, value) ==
    IF \E i \in 1..Len(members) : members[i][1] = key THEN members ELSE Append(members, <<key, value>>)

RECURSIVE OutputDefinitions(_, _, _)
\* definitions after ensureOutputDefinition has run on these output schemas
OutputDefinitions(outputs, heap, definitions) ==
    IF outputs = <<>> THEN definitions
    ELSE OutputDefinitions(Tail(outputs), heap,
            PutIfAbsent(definitions, stableName(Head(outputs)), zodToJsonSchema(Head(outputs), heap)))

\* a reference to the action's bare name, a key index.ts never defines
ActionRefUnsuffixed(aName) ==
    JObj(<< <<"$ref", Str(Spell("#/definitions/") \o Spell(aName))>> >>)

\* { $ref: `#/definitions/${aName}Action` }
ActionRef(aName) ==
    JObj(<< <<"$ref", Str(Spell("#/definitions/") \o Spell(aName) \o Spell("Action"))>> >>)

\* refs.length ? { anyOf: [base, ...refs] } : base
WithRefs(base, names) ==
    IF names = <<>> THEN base
    ELSE JObj(<< <<"anyOf", JArr(<<base>> \o [i \in 1..Len(names) |-> ActionRef(names[i])])>> >>)

\* paramToJsonSchema(paramSchema), the heap being as stableName(paramSchema) leaves it
paramToJsonSchema(t, group, heap) ==
    WithRefs(zodToJsonSchema(t, SortedBySignature(t, heap)), Group(group, stableName(t)))

\* The object defining the invocations of an action, given the schemas of its parameters
ActionDefinition(actionName, shape, props) ==
    JObj(<< <<"type", Word("object")>>,
            <<"properties",
              JObj(<< <<"action", JObj(<< <<"type", Word("string")>>, <<"const", Word(actionName)>> >>)>>,
                      <<"params",
                        JObj(<< <<"type", Word("object")>>,
                                <<"properties", JObj(props)>>,
                                <<"required", Words(FieldNames(shape))>>,
                                <<"additionalProperties", Bool(FALSE)>> >>)>> >>)>>,
            <<"required", Words(<<"action", "params">>)>>,
            <<"additionalProperties", Bool(FALSE)>> >>)

\* the types of the fields of a shape, in declared order
FieldTypes(fields) == [i \in 1..Len(fields) |-> fields[i][2]]

\* props of an action: its parameters in the order of the shape, each converted after
\* those before it
Props(shape, group, heap) ==
    [i \in 1..Len(shape) |->
        <<shape[i][1],
          paramToJsonSchema(shape[i][2], group,
                            SortedByAll(FieldTypes(SubSeq(shape, 1, i - 1)), heap))>>]

RECURSIVE ActionDefinitions(_, _, _, _)
\* definitions after the definition of every one of these actions has been put
ActionDefinitions(reg, group, heap, definitions) ==
    IF reg = <<>> THEN definitions
    ELSE ActionDefinitions(Tail(reg), group, SortedByAll(Params(<<Head(reg)>>), heap),
            Put(definitions, Spell(Head(reg)) \o Spell("Action"),
                ActionDefinition(Head(reg), ActionDef(Head(reg)).input,
                                 Props(ActionDef(Head(reg)).input, group, heap))))

\* jsonSchema, given its definitions
jsonSchema(reg, definitions) ==
    JObj(<< <<"$schema", Word("http://json-schema.org/draft-07/schema#")>>,
            <<"type", Word("object")>>,
            <<"properties",
              JObj(<< <<"execution",
                        JObj(<< <<"anyOf", JArr([i \in 1..Len(reg) |-> ActionRef(reg[i])])>> >>)>> >>)>>,
            <<"required", Words(<<"execution">>)>>,
            <<"additionalProperties", Bool(FALSE)>>,
            <<"definitions", JMap(definitions)>> >>)

\* the enumerable members of what makeCustomResponseFormat returns
makeCustomResponseFormat(schema) ==
    JObj(<< <<"type", Word("json_schema")>>,
            <<"json_schema",
              JObj(<< <<"name", Word("execution")>>, <<"strict", Bool(TRUE)>>, <<"schema", schema>> >>)>> >>)

\* response_format of createActionsExecutor(reg), built on this heap.  The heap is that
\* after the grouping (which has run stableName on every output) when the definitions
\* of the outputs are made, and the definitions of the actions follow.
response_format(reg, group, heap) ==
    makeCustomResponseFormat(
        jsonSchema(reg,
            ActionDefinitions(reg, group, SortedByAll(Outputs(reg), heap),
                OutputDefinitions(Outputs(reg), SortedByAll(Outputs(reg), heap), <<>>))))

(***************************************************************************)
(* The exporter of lib/utils.ts                                            *)
(***************************************************************************)

RECURSIVE GroupByOutputType(_, _, _)
\* actionsByOutputType: as GroupByOutput, the name being that of getStableTypeName
GroupByOutputType(reg, cache, acc) ==
    IF reg = <<>> THEN acc
    ELSE GroupByOutputType(Tail(reg), cache,
            Put(acc, getStableTypeName(ActionDef(Head(reg)).output, cache),
                Append(Group(acc, getStableTypeName(ActionDef(Head(reg)).output, cache)), Head(reg))))

\* `#/definitions/ActionUnionThatOutputs_${outputTypeName}`
actionUnionRefFor(outputTypeName) ==
    Spell("#/definitions/") \o Spell("ActionUnionThatOutputs_") \o outputTypeName

\* { anyOf: [paramJsonSchema] }, with the reference to the union where there is one
AnyOfSchemas(paramJsonSchema, paramTypeName, hasActionUnion) ==
    JObj(<< <<"anyOf",
              JArr(<<paramJsonSchema>>
                   \o (IF hasActionUnion
                       THEN <<JObj(<< <<"$ref", Str(actionUnionRefFor(paramTypeName))>> >>)>>
                       ELSE <<>>))>> >>)

\* paramProperties of an action
paramProperties(shape, group, cache) ==
    [i \in 1..Len(shape) |->
        <<shape[i][1],
          AnyOfSchemas(libZodToJsonSchema(shape[i][2]), getStableTypeName(shape[i][2], cache),
                       Group(group, getStableTypeName(shape[i][2], cache)) # <<>>)>>]

\* { $ref: `#/definitions/${name}` } of every name
NameRefs(names) ==
    JArr([i \in 1..Len(names) |-> JObj(<< <<"$ref", Str(Spell("#/definitions/") \o Spell(names[i]))>> >>)])

RECURSIVE PutAll(_, _)
\* definitions[key] = value for every one of these, in order: a key assigned again
\* keeps its place and takes the new value
PutAll(definitions, members) ==
    IF members = <<>> THEN definitions
    ELSE PutAll(Put(definitions, Head(members)[1], Head(members)[2]), Tail(members))

\* definitions after the three loops of createJsonSchema
Definitions(reg, group, cache) ==
    PutAll(<<>>,
        [i \in 1..Len(reg) |->
            <<Spell(reg[i]),
              ActionDefinition(reg[i], ActionDef(reg[i]).input,
                               paramProperties(ActionDef(reg[i]).input, group, cache))>>]
        \o [i \in 1..Len(group) |->
            <<Spell("ActionUnionThatOutputs_") \o group[i][1], JObj(<< <<"anyOf", NameRefs(group[i][2])>> >>)>>]
        \o << <<Spell("ActionUnion"), JObj(<< <<"anyOf", NameRefs(reg)>> >>)>> >>)

\* what createJsonSchema(reg) returns
createJsonSchemaResult(reg, group, cache) ==
    JObj(<< <<"type", Word("json_schema")>>,
            <<"json_schema",
              JObj(<< <<"name", Word("schema")>>,
                      <<"strict", Bool(TRUE)>>,
                      <<"schema",
                        JObj(<< <<"type", Word("object")>>,
                                <<"properties",
                                  JObj(<< <<"execution",
                                            JObj(<< <<"$ref", Str(Spell("#/definitions/") \o Spell("ActionUnion"))>> >>)>> >>)>>,
                                <<"required", Words(<<"execution">>)>>,
                                <<"additionalProperties", Bool(FALSE)>>,
                                <<"definitions", JMap(Definitions(reg, group, cache))>>,
                                <<"$schema", Word("http://json-schema.org/draft-07/schema#")>> >>)>> >>)>> >>)

(***************************************************************************)
(* The chain schema of index.ts, as what its parse does to a value.  R is  *)
(* the executor's closure: R.actions the registry (names in registration   *)
(* order), R.group its actionsByOutputName.                                *)
(***************************************************************************)

RECURSIVE ParseActionSchema(_, _, _)
RECURSIVE paramSchemaForType(_, _, _)
RECURSIVE FirstAction(_, _, _)
RECURSIVE ParseParams(_, _, _)

\* { action, params } of a parsed invocation
AsInvocation(name, r) ==
    Once(r, LAMBDA parsed :
        IF parsed.ok THEN Ok(Obj(<< <<"action", name>>, <<"params", Obj(parsed.v)>> >>)) ELSE Fail)

\* z.object(shape).strict(): no key of params is undeclared
Strict(shape, params) ==
    \A i \in 1..Len(params.e) : \E j \in 1..Len(shape) : shape[j][1] = params.e[i][1]

\* The first of the action schemas `names` that parses v: ZodUnion takes its options in order.
FirstAction(R, names, v) ==
    Once(names, LAMBDA options : Once(v, LAMBDA val :
        IF options = <<>> THEN Fail
        ELSE OrElse(ParseActionSchema(R, Head(options), val), FirstAction(R, Tail(options), val))))

\* the union of the invocation schemas alone, without the parameter's own type: what
\* paramSchemaForType would build from z.union([...acts])
paramSchemaForActionsOnly(R, paramSchema, v) ==
    FirstAction(R, Group(R.group, stableName(paramSchema)), v)

\* paramSchemaForType(paramSchema).parse(v): the parameter's own type first, then the
\* invocation schema of every action whose output has the parameter's stable name.
paramSchemaForType(R, paramSchema, v) ==
    Once(v, LAMBDA val :
        OrElse(Parse(paramSchema, val), FirstAction(R, Group(R.group, stableName(paramSchema)), val)))

\* z.object(paramsShape): the declared keys, parsed in the order of the shape
ParseParams(R, shape, params) ==
    Once(params, LAMBDA given : Once(shape, LAMBDA declared :
        IF declared = <<>> THEN Ok(<<>>)
        ELSE Cons(Head(declared)[1], paramSchemaForType(R, Head(declared)[2], Get(given, Head(declared)[1])),
                  ParseParams(R, Tail(declared), given))))

\* actionSchemas[name].parse(v), the schema built by actionSchemaBuilders[name]:
\* z.object({ action: z.literal(name), params: z.object(paramsShape).strict() })
ParseActionSchema(R, name, v) ==
    Once(v, LAMBDA val :
        IF /\ IsObject(val)
           /\ Get(val, "action") = Str(Spell(name))
           /\ IsObject(Get(val, "params"))
           /\ Strict(ActionDef(name).input, Get(val, "params"))
        THEN AsInvocation(Get(val, "action"), ParseParams(R, ActionDef(name).input, Get(val, "params")))
        ELSE Fail)

\* schema.parse({ execution: invocation }).execution, where schema is
\* z.object({ execution: ActionUnion }).strict() and ActionUnion the union of every
\* action schema in registration order (makeNonEmptyUnion throws on an empty registry).
ParseChain(R, invocation) == FirstAction(R, R.actions, invocation)

(***************************************************************************)
(* The chain schema of lib/types.ts (createChainSchema): every parameter   *)
(* accepts its own type or an invocation of any action at all.             *)
(***************************************************************************)

RECURSIVE ChainVariant(_, _, _)
RECURSIVE ChainParams(_, _, _)
RECURSIVE createChainSchema(_, _, _)

\* z.union([paramSchema, chainSchema]) for every entry of the input shape
ChainParams(R, shape, params) ==
    IF shape = <<>> THEN Ok(<<>>)
    ELSE Cons(Head(shape)[1],
              OrElse(Parse(Head(shape)[2], Get(params, Head(shape)[1])),
                     createChainSchema(R, R.actions, Get(params, Head(shape)[1]))),
              ChainParams(R, Tail(shape), params))

\* z.object({ action: z.literal(actionName), params: z.object(paramSchemas) })
ChainVariant(R, name, v) ==
    IF IsObject(v) /\ Get(v, "action") = Str(Spell(name)) /\ IsObject(Get(v, "params"))
    THEN AsInvocation(Get(v, "action"), ChainParams(R, ActionDef(name).input, Get(v, "params")))
    ELSE Fail

\* chainSchema.parse(v): z.union(variants), the variants in the order of Object.keys(actions)
createChainSchema(R, names, v) ==
    IF names = <<>> THEN Fail
    ELSE OrElse(ChainVariant(R, Head(names), v), createChainSchema(R, Tail(names), v))

(***************************************************************************)
(* The invocations execute is called with                                  *)
(***************************************************************************)

\* the largest number of invocation nodes in a tree
MaxNodes == 3

\* The registry of the executions
ExecActions ==
    <<"stringToNumber", "numberToString", "lookupGoogleContact",
      "getFirstFacebookContactFromSearch", "sendEmail", "trackEvent">>

\* A literal for a parameter of type Event = z.object({ action: z.string() }): a value
\* of the parameter's type that has a property named action.
ActionLiteral == Obj(<< <<"action", Str(Spell("abc"))>> >>)

\* the literal parameter values
Literals == {Num(3), Str(Spell("abc")), ActionLiteral}

\* { action: a, params: { ...entries } }
Invocation(a, entries) == Obj(<< <<"action", Str(Spell(a))>>, <<"params", Obj(entries)>> >>)

\* the actions met below the root: those of one parameter
NestedActions == {a \in Range(ExecActions) : Len(ActionDef(a).input) = 1}

RECURSIVE Nested(_)
\* The nested invocations of exactly n nodes: a one-parameter action, or the
\* unregistered doesNotExist, over a literal or a nested invocation.
Nested(n) ==
    IF n = 0 THEN Literals
    ELSE {Invocation(a, << <<ActionDef(a).input[1][1], p>> >>) : a \in NestedActions, p \in Nested(n - 1)}
         \cup (IF n = 1 THEN {Invocation("doesNotExist", <<>>)}
               ELSE {Invocation("doesNotExist", << <<"x", p>> >>) : p \in Nested(n - 1)})

\* The invocations of exactly n nodes: the nested ones, and sendEmail at the root with
\* its two parameters written in either order.
Rooted(n) ==
    Nested(n)
    \cup UNION {
           {Invocation("sendEmail", << <<"to", t>>, <<"content", c>> >>) : t \in Nested(i), c \in Nested(n - 1 - i)}
           \cup {Invocation("sendEmail", << <<"content", c>>, <<"to", t>> >>) : t \in Nested(i), c \in Nested(n - 1 - i)}
           : i \in 0..(n - 1)}

Invocations == UNION {Rooted(n) : n \in 1..MaxNodes}

(***************************************************************************)
(* State                                                                   *)
(***************************************************************************)

CallIds == {"c1", "c2"}

\* The entry points: execute of index.ts, execute of lib/types.ts, execute of
\* createActionExecutor, executeAction of createActionsActions.
Entries == {"index", "types", "single", "ctx"}

VARIABLES
    actions,              \* the registry: action names in registration order
    actionsByOutputName,  \* output name -> action names (index.ts)
    pc,                   \* per call: "off", "called", "running", "done"
    entry,                \* per call: the entry point called
    invocation,           \* per call: the argument
    stack,                \* per call: the frames of executeAction, innermost last
    log,                  \* per call: the executor invocations so far
    result,               \* per call: what the call returned or raised
    exporter,             \* the module whose exporter is in use: "index" or "utils"
    enumValues,           \* enum schema -> its array def.values, as it is now
    schemaNameCache,      \* schema -> its cached name, <<>> if none (lib/utils.ts)
    actionsByOutputType,  \* output name -> action names (lib/utils.ts)
    documents,            \* the texts of the documents exported so far
    construction,         \* createActionsExecutor: "none" (not called), "ok" or "failed"
    actionSchemas,        \* the names that have a lazy schema (index.ts)
    built                 \* <<name, params>>: what each action schema builder last returned

vars ==
    <<actions, actionsByOutputName, pc, entry, invocation, stack, log, result,
      exporter, enumValues, schemaNameCache, actionsByOutputType, documents, construction,
      actionSchemas, built>>
registryVars ==
    <<actions, actionsByOutputName, exporter, enumValues, schemaNameCache, actionsByOutputType,
      documents, construction, actionSchemas, built>>

Closure == [actions |-> actions, group |-> actionsByOutputName]

NoResult == [status |-> "none", v |-> Undefined, err |-> "", at |-> <<>>]
Returned(v) == [status |-> "ok", v |-> v, err |-> "", at |-> <<>>]
Raised(kind, path) == [status |-> "err", v |-> Undefined, err |-> kind, at |-> path]

\* A frame of executeAction: the node (its path from the root, by parameter keys), the
\* invocation, the keys of its params in for..in order, the next key to resolve, the
\* input built so far, and once the executor is called the validated input.
Frame(path, inv) ==
    [path |-> path, inv |-> inv, action |-> Lookup(actions, Get(inv, "action")),
     keys |-> IF IsObject(Get(inv, "params")) THEN Keys(Get(inv, "params")) ELSE <<>>,
     i |-> 1, input |-> <<>>, phase |-> "enter", valid |-> Undefined]

Top(c) == stack[c][Len(stack[c])]
SetTop(c, f) == [stack EXCEPT ![c] = [@ EXCEPT ![Len(@)] = f]]

\* param && typeof param === 'object' && 'action' in param
LooksLikeInvocation(param) == IsObject(param) /\ Has(param, "action")

(***************************************************************************)
(* The chain executor                                                      *)
(***************************************************************************)

\* The value the root returns is kept in one place for all the calls in flight
DeliverShared(c, v) ==
    IF Len(stack[c]) = 1
    THEN /\ pc' = [pc EXCEPT ![c] = "done"]
         /\ stack' = [stack EXCEPT ![c] = <<>>]
         /\ result' = [d \in DOMAIN result |-> Returned(v)]
    ELSE LET n == Len(stack[c])
             parent == stack[c][n - 1]
         IN /\ stack' = [stack EXCEPT ![c] =
                  [SubSeq(@, 1, n - 1) EXCEPT ![n - 1] =
                      [parent EXCEPT !.input = Append(@, <<parent.keys[parent.i], v>>),
                                     !.i = @ + 1]]]
            /\ UNCHANGED <<pc, result>>

\* The innermost executeAction returns v: to the caller of execute, or into the input
\* of the parent node, at the key being resolved.
Deliver(c, v) ==
    IF Len(stack[c]) = 1
    THEN /\ pc' = [pc EXCEPT ![c] = "done"]
         /\ stack' = [stack EXCEPT ![c] = <<>>]
         /\ result' = [result EXCEPT ![c] = Returned(v)]
    ELSE LET n == Len(stack[c])
             parent == stack[c][n - 1]
         IN /\ stack' = [stack EXCEPT ![c] =
                  [SubSeq(@, 1, n - 1) EXCEPT ![n - 1] =
                      [parent EXCEPT !.input = Append(@, <<parent.keys[parent.i], v>>),
                                     !.i = @ + 1]]]
            /\ UNCHANGED <<pc, result>>

\* Throw with the failure of a nested node caught in executeAction, the parameter
\* left undefined.
ThrowCaught(c, kind, path) ==
    IF Len(stack[c]) > 1 THEN Deliver(c, Undefined)
    ELSE /\ pc' = [pc EXCEPT ![c] = "done"]
         /\ stack' = [stack EXCEPT ![c] = <<>>]
         /\ result' = [result EXCEPT ![c] = Raised(kind, path)]

\* A throw: nothing in the repository catches, so the whole call ends with the failure.
Throw(c, kind, path) ==
    /\ pc' = [pc EXCEPT ![c] = "done"]
    /\ stack' = [stack EXCEPT ![c] = <<>>]
    /\ result' = [result EXCEPT ![c] = Raised(kind, path)]

\* action.schema.input.parse(input)
ParseInput(a, input) == ObjOf(ParseFields(ActionDef(a).input, input))

\* The executor of the innermost node is called with `input`, and once more
CallExecutorTwice(c, f, input) ==
    /\ log' = [log EXCEPT ![c] = @ \o << [path |-> f.path, action |-> f.action, input |-> input],
                                          [path |-> f.path, action |-> f.action, input |-> input] >>]
    /\ stack' = IF stack[c] = <<>>
                THEN [stack EXCEPT ![c] = <<[f EXCEPT !.phase = "executing", !.valid = input]>>]
                ELSE SetTop(c, [f EXCEPT !.phase = "executing", !.valid = input])
    /\ pc' = [pc EXCEPT ![c] = "running"]
    /\ UNCHANGED result

\* The executor of the innermost node is called with `input`.
CallExecutor(c, f, input) ==
    /\ log' = [log EXCEPT ![c] = Append(@, [path |-> f.path, action |-> f.action, input |-> input])]
    /\ stack' = IF stack[c] = <<>>
                THEN [stack EXCEPT ![c] = <<[f EXCEPT !.phase = "executing", !.valid = input]>>]
                ELSE SetTop(c, [f EXCEPT !.phase = "executing", !.valid = input])
    /\ pc' = [pc EXCEPT ![c] = "running"]
    /\ UNCHANGED result

\* execute without the schema.parse of its first line
executeUnparsed(c) ==
    /\ pc[c] = "called" /\ entry[c] = "index"
    /\ stack' = [stack EXCEPT ![c] = <<Frame(<<>>, invocation[c])>>]
    /\ pc' = [pc EXCEPT ![c] = "running"]
    /\ UNCHANGED <<registryVars, entry, invocation, log, result>>

\* index.ts, execute: the chain schema first, then executeAction on what it parsed.
\* The action schemas are z.lazy: parsing runs their builders, and paramSchemaForType
\* calls stableName, which sorts, on every parameter type once more.
execute(c) ==
    /\ pc[c] = "called" /\ entry[c] = "index"
    /\ LET parsed == ParseChain(Closure, invocation[c])
       IN IF parsed.ok
          THEN /\ stack' = [stack EXCEPT ![c] = <<Frame(<<>>, parsed.v)>>]
               /\ pc' = [pc EXCEPT ![c] = "running"]
               /\ UNCHANGED result
          ELSE Throw(c, "ChainShapeError", <<>>)
    /\ enumValues' = SortedByAll(Params(actions), enumValues)
    /\ UNCHANGED <<actions, actionsByOutputName, exporter, schemaNameCache, actionsByOutputType,
                   documents, construction, actionSchemas, built>>
    /\ UNCHANGED <<entry, invocation, log>>

\* lib/types.ts, execute: no schema check, the invocation is resolved as it is.
typesExecute(c) ==
    /\ pc[c] = "called" /\ entry[c] = "types"
    /\ stack' = [stack EXCEPT ![c] = <<Frame(<<>>, invocation[c])>>]
    /\ pc' = [pc EXCEPT ![c] = "running"]
    /\ UNCHANGED <<registryVars, entry, invocation, log, result>>

\* executeAction, on entering a node: actions[actionName], and in index.ts
\* `if (!action) throw new Error('Unknown action')`.  lib/types.ts goes on with
\* action undefined.
executeAction(c) ==
    /\ pc[c] = "running" /\ Top(c).phase = "enter"
    /\ IF entry[c] = "index" /\ Top(c).action = ""
       THEN Throw(c, "UnknownAction", Top(c).path)
       ELSE /\ stack' = SetTop(c, [Top(c) EXCEPT !.phase = "params"])
            /\ UNCHANGED <<pc, result>>
    /\ UNCHANGED <<registryVars, entry, invocation, log>>

\* One turn of the loop that does not move on to the next key after a literal
resolveParamNoAdvance(c) ==
    /\ pc[c] = "running" /\ Top(c).phase = "params" /\ Top(c).i <= Len(Top(c).keys)
    /\ LET f == Top(c)
           key == f.keys[f.i]
           param == Get(Get(f.inv, "params"), key)
       IN IF LooksLikeInvocation(param)
          THEN stack' = [stack EXCEPT ![c] = Append(@, Frame(Append(f.path, key), param))]
          ELSE stack' = SetTop(c, [f EXCEPT !.input = <<<<key, param>>>>])
    /\ UNCHANGED <<registryVars, pc, entry, invocation, log, result>>

\* One turn of the loop with every value copied into the input as it is, a nested
\* invocation not executed
resolveParamUnresolved(c) ==
    /\ pc[c] = "running" /\ Top(c).phase = "params" /\ Top(c).i <= Len(Top(c).keys)
    /\ stack' = SetTop(c, [Top(c) EXCEPT
                    !.input = Append(@, <<Top(c).keys[Top(c).i],
                                          Get(Get(Top(c).inv, "params"), Top(c).keys[Top(c).i])>>),
                    !.i = @ + 1])
    /\ UNCHANGED <<registryVars, pc, entry, invocation, log, result>>

\* One turn of `for (const key in params)`: a value that looks like an invocation is
\* executed first, any other is copied into the input.
resolveParam(c) ==
    /\ pc[c] = "running" /\ Top(c).phase = "params" /\ Top(c).i <= Len(Top(c).keys)
    /\ LET f == Top(c)
           key == f.keys[f.i]
           param == Get(Get(f.inv, "params"), key)
       IN IF LooksLikeInvocation(param)
          THEN stack' = [stack EXCEPT ![c] = Append(@, Frame(Append(f.path, key), param))]
          ELSE stack' = SetTop(c, [f EXCEPT !.input = Append(@, <<key, param>>), !.i = @ + 1])
    /\ UNCHANGED <<registryVars, pc, entry, invocation, log, result>>

\* After the loop: action.execute(action.schema.input.parse(input)).  The parse throws
\* on an input the action's own schema rejects; in lib/types.ts reading
\* action.schema of an unregistered action throws a TypeError.
validateAndInvoke(c) ==
    /\ pc[c] = "running" /\ Top(c).phase = "params" /\ Top(c).i > Len(Top(c).keys)
    /\ LET f == Top(c)
       IN IF f.action = ""
          THEN Throw(c, "TypeError", f.path) /\ UNCHANGED log
          ELSE LET r == ParseInput(f.action, Obj(f.input))
               IN IF r.ok THEN CallExecutor(c, f, r.v)
                  ELSE Throw(c, "InputValidationError", f.path) /\ UNCHANGED log
    /\ UNCHANGED <<registryVars, entry, invocation>>

\* The executor called last settles: it raises, or its value goes to the parent.
executorSettles(c) ==
    /\ pc[c] = "running" /\ Top(c).phase = "executing"
    /\ LET f == Top(c)
       IN IF Throws(f.action, f.valid)
          THEN Throw(c, "ExecutionError", f.path)
          ELSE Deliver(c, Exec(f.action, f.valid))
    /\ UNCHANGED <<registryVars, entry, invocation, log>>

\* createActionExecutor(...).execute({ action, params }): the executor is called with
\* params as they came.
createActionExecutor(c) ==
    /\ pc[c] = "called" /\ entry[c] = "single"
    /\ LET f == Frame(<<>>, invocation[c])
       IN IF f.action = ""
          THEN Throw(c, "TypeError", <<>>) /\ UNCHANGED log
          ELSE CallExecutor(c, f, Get(invocation[c], "params"))
    /\ UNCHANGED <<registryVars, entry, invocation>>

\* createActionsActions(...).executeAction({ action, params, context }): the action is
\* looked up, params are parsed by its schema, the handler is called with the result.
createActionsActions(c) ==
    /\ pc[c] = "called" /\ entry[c] = "ctx"
    /\ LET f == Frame(<<>>, invocation[c])
       IN IF f.action = ""
          THEN Throw(c, "UnknownAction", <<>>) /\ UNCHANGED log
          ELSE LET r == IF IsObject(Get(invocation[c], "params"))
                        THEN ParseInput(f.action, Get(invocation[c], "params")) ELSE Fail
               IN IF r.ok THEN CallExecutor(c, f, r.v)
                  ELSE Throw(c, "InputValidationError", <<>>) /\ UNCHANGED log
    /\ UNCHANGED <<registryVars, entry, invocation>>

(***************************************************************************)
(* The executions: one call, of any entry point, on any of the invocations *)
(***************************************************************************)

\* the flat entry points take invocations of at most this many nodes
MaxFlatNodes == 2

FlatInvocations == UNION {Rooted(n) : n \in 1..MaxFlatNodes}

Init ==
    /\ actions = ExecActions
    /\ actionsByOutputName = GroupByOutput(ExecActions, <<>>)
    /\ pc = [c \in CallIds |-> IF c = "c1" THEN "called" ELSE "off"]
    /\ \E e \in Entries :
       \E inv \in (IF e \in {"single", "ctx"} THEN FlatInvocations ELSE Invocations) :
        /\ entry = [c \in CallIds |-> IF c = "c1" THEN e ELSE "index"]
        /\ invocation = [c \in CallIds |-> IF c = "c1" THEN inv ELSE Invocation("doesNotExist", <<>>)]
    /\ stack = [c \in CallIds |-> <<>>]
    /\ log = [c \in CallIds |-> <<>>]
    /\ result = [c \in CallIds |-> NoResult]
    /\ exporter = "index"
    /\ enumValues = SortedByAll(Outputs(ExecActions) \o Params(ExecActions), DeclaredValues)
    /\ schemaNameCache = [t \in TypeIds |-> <<>>]
    /\ actionsByOutputType = <<>>
    /\ documents = <<>>
    /\ construction = "ok"
    /\ actionSchemas = Range(actions)
    /\ built = <<>>

Next ==
    \E c \in CallIds :
        \/ execute(c)
        \/ typesExecute(c)
        \/ executeAction(c)
        \/ resolveParam(c)
        \/ validateAndInvoke(c)
        \/ executorSettles(c)
        \/ createActionExecutor(c)
        \/ createActionsActions(c)

Spec == Init /\ [][Next]_vars

(***************************************************************************)
(* The exports: a registry is made, and its document is built and          *)
(* serialised, again and again.                                            *)
(***************************************************************************)

\* the largest number of actions in a registry
MaxActions == 3

\* the largest number of exports of one registry
MaxBuilds == 2

\* The actions registered with an exporter.  Those of lib/utils.ts have string, object
\* and boolean schemas, the ones its getStableTypeName names.
ExportActions(x) ==
    {"numberToString", "getFirstGoogleContactFromSearch", "getFirstFacebookContactFromSearch",
     "sendEmail", "lookupGoogleContact", "describeContact"}
    \cup (IF x = "index" THEN {"paint", "tint"} ELSE {})

\* the registries: up to MaxActions distinct actions, in any order
Registries(x) ==
    UNION {{reg \in [1..n -> ExportActions(x)] : \A i, j \in 1..n : reg[i] = reg[j] => i = j}
           : n \in 1..MaxActions}

\* (actionsByOutputName[outName] ?? []).map(n => actionSchemas[n]).filter(x => !!x): the
\* actions of the group that have a schema by now
SchemasOf(names, handles) == SelectSeq(names, LAMBDA n : n \in handles)

\* what actionSchemaBuilders[name] returns: for every key of the shape, the actions that
\* paramSchemaForType puts beside the parameter's own type
BuiltParams(name, group, handles) ==
    [i \in 1..Len(ActionDef(name).input) |->
        <<ActionDef(name).input[i][1],
          SchemasOf(Group(group, stableName(ActionDef(name).input[i][2])), handles)>>]

RECURSIVE BuiltInOrder(_, _, _, _)
\* the schemas built one registration after the other, each when only the actions
\* registered before it have a schema
BuiltInOrder(reg, group, handles, acc) ==
    IF reg = <<>> THEN acc
    ELSE BuiltInOrder(Tail(reg), group, handles \cup {Head(reg)},
                      Append(acc, <<Head(reg), BuiltParams(Head(reg), group, handles)>>))

\* createActionsExecutor building every action schema at once, in registration order,
\* instead of handing out lazy schemas first
createActionsExecutorEager ==
    /\ exporter = "index"
    /\ Len(documents) < MaxBuilds
    /\ actionsByOutputName' = GroupByOutput(actions, <<>>)
    /\ enumValues' = SortedByAll(Outputs(actions) \o Params(actions), enumValues)
    /\ documents' =
            Append(documents,
                   JSONStringify(response_format(actions, GroupByOutput(actions, <<>>), enumValues),
                                 NoReplacer, enumValues'))
    /\ construction' = "ok"
    /\ actionSchemas' = Range(actions)
    /\ built' = BuiltInOrder(actions, GroupByOutput(actions, <<>>), {}, <<>>)
    /\ UNCHANGED <<actions, exporter, schemaNameCache, actionsByOutputType>>
    /\ UNCHANGED <<pc, entry, invocation, stack, log, result>>

\* createActionsExecutor(actions) of index.ts, and JSON.stringify of its response_format
createActionsExecutor ==
    /\ exporter = "index"
    /\ Len(documents) < MaxBuilds
    /\ actionsByOutputName' = GroupByOutput(actions, <<>>)
    /\ enumValues' = SortedByAll(Outputs(actions) \o Params(actions), enumValues)
    /\ documents' =
            Append(documents,
                   JSONStringify(response_format(actions, GroupByOutput(actions, <<>>), enumValues),
                                 NoReplacer, enumValues'))
    /\ construction' = "ok"
    /\ actionSchemas' = Range(actions)
    /\ UNCHANGED <<actions, exporter, schemaNameCache, actionsByOutputType, built>>
    /\ UNCHANGED <<pc, entry, invocation, stack, log, result>>

\* createJsonSchema(actions) of lib/utils.ts, and JSON.stringify of what it returns
createJsonSchema ==
    /\ exporter = "utils"
    /\ Len(documents) < MaxBuilds
    /\ actionsByOutputType' = GroupByOutputType(actions, schemaNameCache, <<>>)
    /\ schemaNameCache' = Cached(Range(Outputs(actions) \o Params(actions)), schemaNameCache)
    /\ documents' =
            Append(documents,
                   JSONStringify(createJsonSchemaResult(actions, actionsByOutputType', schemaNameCache),
                                 NoReplacer, enumValues))
    /\ UNCHANGED <<actions, exporter, enumValues, actionsByOutputName, construction,
                   actionSchemas, built>>
    /\ UNCHANGED <<pc, entry, invocation, stack, log, result>>

ExportInit ==
    /\ exporter \in {"index", "utils"}
    /\ actions \in Registries(exporter)
    /\ actionsByOutputName = <<>>
    /\ actionsByOutputType = <<>>
    /\ enumValues = DeclaredValues
    /\ schemaNameCache = [t \in TypeIds |-> <<>>]
    /\ documents = <<>>
    /\ construction = "none"
    /\ actionSchemas = {}
    /\ built = <<>>
    /\ pc = [c \in CallIds |-> "off"]
    /\ entry = [c \in CallIds |-> "index"]
    /\ invocation = [c \in CallIds |-> Invocation("doesNotExist", <<>>)]
    /\ stack = [c \in CallIds |-> <<>>]
    /\ log = [c \in CallIds |-> <<>>]
    /\ result = [c \in CallIds |-> NoResult]

ExportNext == createActionsExecutor \/ createJsonSchema

SpecExport == ExportInit /\ [][ExportNext]_vars

(***************************************************************************)
(* The notions the properties are stated in                                *)
(***************************************************************************)

IsPrefix(p, q) == Len(p) <= Len(q) /\ SubSeq(q, 1, Len(p)) = p
ProperPrefix(p, q) == Len(p) < Len(q) /\ SubSeq(q, 1, Len(p)) = p

RECURSIVE NodeAt(_, _)
\* the node of the tree at a path of parameter keys
NodeAt(inv, path) ==
    IF path = <<>> THEN inv ELSE NodeAt(Get(Get(inv, "params"), Head(path)), Tail(path))

\* the calls made through createActionsExecutor
ChainCall(c) == pc[c] # "off" /\ entry[c] \in {"index", "types"}

Registered(v) == Lookup(actions, Get(v, "action")) # ""
ActionOf(v) == Lookup(actions, Get(v, "action"))

\* A parameter value is a nested invocation when it carries the discriminant field and
\* a known action name; any other value is a literal.
IsInvocation(v) == LooksLikeInvocation(v) /\ Registered(v)

\* what the executor of action a does with an input
Outcome(a, input) ==
    IF Throws(a, input) THEN Raised("ExecutionError", <<>>) ELSE Returned(Exec(a, input))

RECURSIVE Denote(_)
RECURSIVE Substituted(_, _)
RECURSIVE ValueOf(_)
\* The value of a parameter: a nested invocation stands for what its execution returned.
ValueOf(p) == IF IsInvocation(p) THEN Denote(p).v ELSE p

\* The input of a node: its declared parameters, every nested invocation replaced.
Substituted(shape, params) ==
    IF shape = <<>> THEN <<>>
    ELSE << <<Head(shape)[1], ValueOf(Get(params, Head(shape)[1]))>> >>
         \o Substituted(Tail(shape), params)

\* The executor of the node's action applied to the substituted input.
Denote(inv) ==
    Outcome(ActionOf(inv), Obj(Substituted(ActionDef(ActionOf(inv)).input, Get(inv, "params"))))

\* the identity of the output of the action a nested invocation names
OutputName(v) == stableName(ActionDef(ActionOf(v)).output)

RECURSIVE WellTyped(_)
RECURSIVE WellTypedParam(_, _)
\* A literal of the parameter's type, or a nested invocation, itself well typed, of an
\* action with the parameter's identity whose execution returns a value of the type.
WellTypedParam(t, p) ==
    IF IsInvocation(p)
    THEN /\ WellTyped(p)
         /\ OutputName(p) = stableName(t)
         /\ Denote(p).status = "ok"
         /\ Parse(t, Denote(p).v).ok
    ELSE Parse(t, p).ok

\* Every node names a registered action and has the declared parameters, well typed.
WellTyped(inv) ==
    /\ IsInvocation(inv)
    /\ IsObject(Get(inv, "params"))
    /\ Range(Keys(Get(inv, "params"))) = {f[1] : f \in Range(ActionDef(ActionOf(inv)).input)}
    /\ \A f \in Range(ActionDef(ActionOf(inv)).input) :
            WellTypedParam(f[2], Get(Get(inv, "params"), f[1]))

(***************************************************************************)
(* Properties of the chain executor                                        *)
(***************************************************************************)

\* C1: for every well-typed invocation tree (each node a registered action, each
\* parameter a literal of its type or a nested invocation whose output is of its
\* type), execute returns the root executor's output on the input in which every
\* nested invocation is replaced by the value its own execution returned.
C1_NestedSubstitution ==
    \A c \in CallIds :
        (ChainCall(c) /\ pc[c] = "done" /\ WellTyped(invocation[c]))
            => result[c] = Denote(invocation[c])

\* The call C1 fails on: trackEvent with the literal { action: 'abc' } ends in the
\* failure of a node the literal was taken for.
C1_LiteralTakenForInvocation ==
    \E c \in CallIds :
        /\ ChainCall(c) /\ pc[c] = "done"
        /\ invocation[c] = Invocation("trackEvent", << <<"event", ActionLiteral>> >>)
        /\ result[c].status = "err" /\ result[c].at = <<"event">>

\* every parameter of the root is a literal its schema accepts
AllLiteral(inv) ==
    /\ IsInvocation(inv)
    /\ IsObject(Get(inv, "params"))
    /\ \A i \in 1..Len(Get(inv, "params").e) : ~IsInvocation(Get(inv, "params").e[i][2])
    /\ ParseInput(ActionOf(inv), Get(inv, "params")).ok

\* C2: an invocation of a registered action whose parameters are all literals its
\* input schema accepts invokes exactly that action's executor, with those values,
\* and returns its output; no other executor is invoked.
C2_DirectLiteral ==
    \A c \in CallIds :
        (ChainCall(c) /\ pc[c] = "done" /\ AllLiteral(invocation[c]))
            => /\ Len(log[c]) = 1
               /\ log[c][1].path = <<>>
               /\ log[c][1].action = ActionOf(invocation[c])
               /\ log[c][1].input = ParseInput(ActionOf(invocation[c]), Get(invocation[c], "params")).v
               /\ result[c] = Outcome(ActionOf(invocation[c]), log[c][1].input)

\* The call C2 fails on: no executor was invoked for trackEvent({ event: { action: 'abc' } }).
C2_NoExecutorInvoked ==
    \E c \in CallIds :
        /\ ChainCall(c) /\ pc[c] = "done"
        /\ invocation[c] = Invocation("trackEvent", << <<"event", ActionLiteral>> >>)
        /\ log[c] = <<>>

\* the declared parameters of the root's action
Declared(inv) == Range(ActionDef(ActionOf(inv)).input)

\* the parameters of the root given as a nested invocation of an action whose output
\* has another identity than the parameter
Mismatched(inv) ==
    {f \in Declared(inv) :
        /\ IsInvocation(Get(Get(inv, "params"), f[1]))
        /\ OutputName(Get(Get(inv, "params"), f[1])) # stableName(f[2])}

\* A parameter that is in order but for its identity: a literal of the type without the
\* discriminant, or a nested invocation, well typed, that returns (a value of the
\* type, where the identities agree).
FineBut(inv, f, p) ==
    IF IsInvocation(p)
    THEN /\ WellTyped(p)
         /\ Denote(p).status = "ok"
         /\ f \notin Mismatched(inv) => Parse(f[2], Denote(p).v).ok
    ELSE ~LooksLikeInvocation(p) /\ Parse(f[2], p).ok

RECURSIVE Unambiguous(_)
\* No value of the tree carries the discriminant field without a known action name.
Unambiguous(v) ==
    /\ LooksLikeInvocation(v) => Registered(v)
    /\ IsInvocation(v) /\ IsObject(Get(v, "params"))
            => \A i \in 1..Len(Get(v, "params").e) : Unambiguous(Get(v, "params").e[i][2])

\* The one defect of the tree is a mismatch at a parameter of the root.
OnlyMismatch(inv) ==
    /\ IsInvocation(inv)
    /\ Unambiguous(inv)
    /\ IsObject(Get(inv, "params"))
    /\ Range(Keys(Get(inv, "params"))) = {f[1] : f \in Declared(inv)}
    /\ Mismatched(inv) # {}
    /\ \A f \in Declared(inv) : FineBut(inv, f, Get(Get(inv, "params"), f[1]))

\* C3: a nested invocation whose output identity differs from the parameter's makes
\* execute fail with InputValidationError at the parent node, when the parent's
\* resolved input is validated, the tree being shape-valid; the parent's executor is
\* never invoked.
C3_MismatchRejection ==
    \A c \in CallIds :
        (ChainCall(c) /\ pc[c] = "done" /\ OnlyMismatch(invocation[c]))
            => /\ result[c] = Raised("InputValidationError", <<>>)
               /\ \A i \in 1..Len(log[c]) : log[c][i].path # <<>>

\* The call C3 fails on: the mismatch is rejected by the chain schema, as a tree that
\* is not shape-valid.
C3_RejectedByChainSchema ==
    \E c \in CallIds :
        /\ ChainCall(c) /\ pc[c] = "done" /\ OnlyMismatch(invocation[c])
        /\ result[c] = Raised("ChainShapeError", <<>>)

\* C4: a node naming an action absent from the registry makes execute raise
\* UnknownAction before any parameter of the node is resolved: no executor below the
\* node is invoked, and for an unregistered root no executor at all.
C4_UnknownAction ==
    \A c \in CallIds :
        ChainCall(c) =>
            /\ \A i \in 1..Len(log[c]) : \A n \in 0..Len(log[c][i].path) :
                    Registered(NodeAt(invocation[c], SubSeq(log[c][i].path, 1, n)))
            /\ (pc[c] = "done" /\ ~Registered(invocation[c]))
                    => result[c] = Raised("UnknownAction", <<>>) /\ log[c] = <<>>

\* The call C4 fails on: an executor below an unregistered node was invoked, and the
\* call ended in a TypeError.
C4_ExecutorBelowUnknownNode ==
    \E c \in CallIds :
        /\ ChainCall(c) /\ pc[c] = "done" /\ ~Registered(invocation[c])
        /\ Len(log[c]) = 1
        /\ result[c] = Raised("TypeError", <<>>)

\* C5: a failure of any node (unknown action, input validation, a raising executor)
\* is the failure of the whole call: a call returns a value only from its root
\* executor and with no executor having raised; an executor that raises is the last
\* one invoked and its failure the call's; a failed call has invoked the executor of
\* no ancestor of the failed node, and after the failure nothing more is invoked or
\* returned.
C5_AbortOnFailure ==
    /\ [](\A c \in CallIds :
            /\ \A i \in 1..Len(log[c]) :
                   Throws(log[c][i].action, log[c][i].input)
                       => /\ i = Len(log[c])
                          /\ pc[c] = "done" => result[c] = Raised("ExecutionError", log[c][i].path)
            /\ result[c].status = "ok"
                   => /\ pc[c] = "done"
                      /\ log[c] # <<>>
                      /\ log[c][Len(log[c])].path = <<>>
                      /\ result[c].v = Exec(log[c][Len(log[c])].action, log[c][Len(log[c])].input)
            /\ result[c].status = "err"
                   => /\ pc[c] = "done" /\ stack[c] = <<>>
                      /\ \A i \in 1..Len(log[c]) : ~ProperPrefix(log[c][i].path, result[c].at)
            /\ pc[c] = "done" => result[c].status # "none")
    /\ [][\A c \in CallIds :
            result[c].status = "err" => log'[c] = log[c] /\ result'[c] = result[c]]_vars

\* An executor two levels down raised: the call failed with it, and a nested
\* invocation later in the same node was never executed.
C5_Witness ==
    \E c \in CallIds :
        /\ pc[c] = "done"
        /\ result[c] = Raised("ExecutionError", <<"to">>)
        /\ IsInvocation(Get(Get(invocation[c], "params"), "content"))
        /\ Len(log[c]) = 1

\* the place of a parameter in the declared order
DeclIndex(a, key) == CHOOSE i \in 1..Len(ActionDef(a).input) : ActionDef(a).input[i][1] = key

RECURSIVE Common(_, _)
\* the length of the longest common prefix
Common(p, q) ==
    IF p = <<>> \/ q = <<>> THEN 0
    ELSE IF Head(p) # Head(q) THEN 0 ELSE 1 + Common(Tail(p), Tail(q))

\* Whether declared-order, depth-first resolution invokes the executor at path p
\* before the one at path q: never a node before a node below it, and below one node
\* the earlier declared parameter first.
Before(inv, p, q, n) ==
    IF n = Len(p) THEN FALSE
    ELSE IF n = Len(q) THEN TRUE
    ELSE Registered(NodeAt(inv, SubSeq(p, 1, n)))
            => DeclIndex(ActionOf(NodeAt(inv, SubSeq(p, 1, n))), p[n + 1])
                 < DeclIndex(ActionOf(NodeAt(inv, SubSeq(p, 1, n))), q[n + 1])

\* C6: the nested invocations of every node are resolved one at a time in the declared
\* parameter order of the node's action, whatever the key order of the caller's
\* params, each before the next and before the node's own executor.
C6_DeclaredOrder ==
    \A c \in CallIds :
        ChainCall(c) =>
            \A i, j \in 1..Len(log[c]) :
                i < j => Before(invocation[c], log[c][i].path, log[c][j].path,
                                Common(log[c][i].path, log[c][j].path))

\* The call C6 fails on: content, written first by the caller, was resolved before to.
C6_CallerOrder ==
    \E c \in CallIds :
        /\ ChainCall(c) /\ Len(log[c]) >= 2
        /\ log[c][1].path = <<"content">> /\ log[c][2].path = <<"to">>

\* C7: in every entry point an executor is invoked only with the successful result of
\* validating the node's resolved input against the action's own input schema.
C7_ValidatedInput ==
    \A c \in CallIds :
        \A i \in 1..Len(log[c]) :
            ParseInput(log[c][i].action, log[c][i].input) = Ok(log[c][i].input)

\* The call C7 fails on: createActionExecutor invoked an executor with an input its
\* schema rejects.
C7_Unvalidated ==
    \E c \in CallIds :
        /\ entry[c] = "single" /\ Len(log[c]) = 1
        /\ ~ParseInput(log[c][1].action, log[c][1].input).ok

\* C8: where execute checks the chain shape first, a tree that fails the chain
\* schema makes it raise before any executor anywhere in the tree is invoked.
C8_ShapeCheckFirst ==
    \A c \in CallIds :
        (pc[c] # "off" /\ entry[c] = "index" /\ ~ParseChain(Closure, invocation[c]).ok)
            => /\ log[c] = <<>>
               /\ pc[c] = "done" => result[c] = Raised("ChainShapeError", <<>>)

\* A tree was rejected whose nested invocation could have been executed.
C8_Witness ==
    \E c \in CallIds :
        /\ entry[c] = "index" /\ pc[c] = "done"
        /\ result[c] = Raised("ChainShapeError", <<>>)
        /\ IsInvocation(invocation[c])
        /\ \E f \in Declared(invocation[c]) : AllLiteral(Get(Get(invocation[c], "params"), f[1]))

(***************************************************************************)
(* Properties of the type identity and of the exporters                    *)
(***************************************************************************)

RECURSIVE SameShape(_, _)
\* Two definitions of the same shape: the same kind of type and, for objects, the same
\* field names with fields of the same shape, whatever the order and the description.
ShapesAgree(d, e) ==
    /\ d.kind = e.kind
    /\ d.kind = "literal" => d.value = e.value
    /\ d.kind = "enum" => Range(d.values) = Range(e.values)
    /\ d.kind = "optional" => SameShape(d.inner, e.inner)
    /\ d.kind = "object" =>
        /\ Range(FieldNames(d.fields)) = Range(FieldNames(e.fields))
        /\ \A f \in Range(d.fields), g \in Range(e.fields) : f[1] = g[1] => SameShape(f[2], g[2])

SameShape(s, t) == ShapesAgree(TypeDef(s), TypeDef(t))

\* the exporter in use has built its grouping
Built == documents # <<>>

\* the identity the exporter in use gives a type
TypeIdentity(t) ==
    IF exporter = "index" THEN stableName(t) ELSE getStableTypeName(t, schemaNameCache)

\* the grouping of the exporter in use
Grouping == IF exporter = "index" THEN actionsByOutputName ELSE actionsByOutputType

\* two registered actions are in one output group
SameGroup(a, b) == \E i \in 1..Len(Grouping) : {a, b} \subseteq Range(Grouping[i][2])

C10_ExportDeterminism == \A i, j \in 1..Len(documents) : documents[i] = documents[j]

\* C10, the case: a registry has been exported twice, the first export having sorted
\* an enum array that was written into the document before it was sorted
C10_Witness ==
    /\ Len(documents) >= 2
    /\ enumValues # DeclaredValues
    /\ \E i, j \in 1..Len(actions) : i < j /\ actions[i] = "tint" /\ actions[j] = "paint"

\* the text the exporter x gives for a registry, exported first thing
Exported(x, reg) ==
    IF x = "index"
    THEN JSONStringify(response_format(reg, GroupByOutput(reg, <<>>), DeclaredValues), NoReplacer,
                       SortedByAll(Outputs(reg) \o Params(reg), DeclaredValues))
    ELSE JSONStringify(createJsonSchemaResult(reg,
                                              GroupByOutputType(reg, [t \in TypeIds |-> <<>>], <<>>),
                                              [t \in TypeIds |-> <<>>]),
                       NoReplacer, DeclaredValues)

\* the registries of the same actions as reg, in every order
Reordered(reg) == {r \in Registries(exporter) : Range(r) = Range(reg)}

\* C11: the document exported from a registry is, character for character, the document
\* exported from the same actions registered in any other order.
C11_OrderIndependence ==
    Built => \A reg \in Reordered(actions) : Exported(exporter, reg) = documents[1]

\* C11, the case: a registry of several actions has been exported
C11_Witness == Built /\ Len(actions) >= 2

\* the object the exporter in use has built from the registry
Document ==
    IF exporter = "index" THEN response_format(actions, actionsByOutputName, DeclaredValues)
    ELSE createJsonSchemaResult(actions, actionsByOutputType, schemaNameCache)

\* json_schema.schema of the document
SchemaOf(doc) == MemberNamed(MemberNamed(doc, Spell("json_schema")), Spell("schema"))

\* the members of its definitions: <<key, definition>>
DefinitionsOf(doc) == MemberNamed(SchemaOf(doc), Spell("definitions")).m

\* the key under which the exporter in use defines an action
ActionKey(a) == IF exporter = "index" THEN Spell(a) \o Spell("Action") ELSE Spell(a)

\* the text of the reference to the definition of an action
RefTo(a) == Spell("#/definitions/") \o ActionKey(a)

\* v is { anyOf: [...] }
IsUnion(v) == v.k = "json" /\ Len(v.m) = 1 /\ v.m[1][1] = "anyOf"

\* v is { $ref: ... }
IsRef(v) == v.k = "json" /\ Len(v.m) = 1 /\ v.m[1][1] = "$ref"

\* the references a union lists, in order (a member that is no reference gives <<>>)
RefsOf(v) == [i \in 1..Len(v.m[1][2].a) |-> IF IsRef(v.m[1][2].a[i]) THEN v.m[1][2].a[i].m[1][2].s ELSE <<>>]

\* v is a union that lists, once each, the references to exactly these actions
UnionOfActions(v, as) ==
    /\ IsUnion(v)
    /\ Len(RefsOf(v)) = Cardinality(as)
    /\ Range(RefsOf(v)) = {RefTo(a) : a \in as}

\* the top-level union of all actions
TopUnion(doc) ==
    IF exporter = "index"
    THEN MemberNamed(MemberNamed(SchemaOf(doc), Spell("properties")), Spell("execution"))
    ELSE MemberNamed(MemberNamed(SchemaOf(doc), Spell("definitions")), Spell("ActionUnion"))

\* the keys that stand for an output identity
IdentityKeys(id) == {id, Spell("ActionUnionThatOutputs_") \o id}

\* the registered actions whose output has this identity
ActionsOf(id) == {a \in Range(actions) : TypeIdentity(ActionDef(a).output) = id}

\* every registered action is a definition key exactly once
EveryActionDefined(doc) ==
    \A a \in Range(actions) :
        Cardinality({i \in 1..Len(DefinitionsOf(doc)) : DefinitionsOf(doc)[i][1] = ActionKey(a)}) = 1

\* every output identity is, exactly once, the key of a definition that is the union of
\* the actions of that identity
EveryIdentityAUnion(doc) ==
    \A a \in Range(actions) :
        Cardinality({i \in 1..Len(DefinitionsOf(doc)) :
                        /\ DefinitionsOf(doc)[i][1] \in IdentityKeys(TypeIdentity(ActionDef(a).output))
                        /\ UnionOfActions(DefinitionsOf(doc)[i][2],
                                          ActionsOf(TypeIdentity(ActionDef(a).output)))}) = 1

\* the top-level union lists exactly the registered actions
TopUnionExact(doc) == UnionOfActions(TopUnion(doc), Range(actions))

\* C12: in the exported document every registered action is a definition key exactly
\* once, every distinct output identity is a union definition exactly once, and the
\* top-level union lists exactly the registered actions.
C12_ExportCompleteness ==
    Built => EveryActionDefined(Document) /\ EveryIdentityAUnion(Document) /\ TopUnionExact(Document)

\* C12, the case: a registry in which two actions share an output identity has been
\* exported
C12_Witness ==
    /\ Built
    /\ \E a, b \in Range(actions) :
        a # b /\ TypeIdentity(ActionDef(a).output) = TypeIdentity(ActionDef(b).output)

\* a parameter of type t admits the invocations of action b: b is in the output group
\* that the exporter in use looks up for the parameter
Admits(t, b) == b \in Range(Group(Grouping, TypeIdentity(t)))

\* C13: types that differ in the value of a literal field or in the type of a field have
\* different identities, and a parameter admits only the invocations of the actions
\* whose output is of the parameter's own shape.
C13_LockedDown ==
    Built =>
        /\ \A a, b \in Range(actions) :
            ~SameShape(ActionDef(a).output, ActionDef(b).output) =>
                TypeIdentity(ActionDef(a).output) # TypeIdentity(ActionDef(b).output)
        /\ \A a, b \in Range(actions) :
            \A i \in 1..Len(ActionDef(a).input) :
                Admits(ActionDef(a).input[i][2], b) =>
                    SameShape(ActionDef(a).input[i][2], ActionDef(b).output)

\* C13, the case: sendEmail is registered with both contact searches, and admits the
\* Google one
C13_Witness ==
    /\ Built
    /\ {"sendEmail", "getFirstGoogleContactFromSearch", "getFirstFacebookContactFromSearch"}
          \subseteq Range(actions)
    /\ Admits("GoogleContactId", "getFirstGoogleContactFromSearch")

(***************************************************************************)
(* Properties of the chain schema                                          *)
(***************************************************************************)

\* the parameter validator of entry point e, for a parameter of type t, accepts v
ParamAccepts(e, t, v) ==
    IF e = "index" THEN paramSchemaForType(Closure, t, v).ok
    ELSE OrElse(Parse(t, v), createChainSchema(Closure, actions, v)).ok

\* the invocation schema of the action that v names accepts v
OwnSchemaAccepts(e, v) ==
    IF e = "index" THEN ParseActionSchema(Closure, ActionOf(v), v).ok
    ELSE ChainVariant(Closure, ActionOf(v), v).ok

\* the root of the call's tree names a registered action that declares these parameters
RootDeclares(c) ==
    /\ entry[c] \in {"index", "types"}
    /\ IsInvocation(invocation[c])
    /\ IsObject(Get(invocation[c], "params"))

\* the values given for the declared parameters of the root: <<type, value>>
RootParams(c) ==
    {<<f[2], Get(Get(invocation[c], "params"), f[1])>> : f \in Declared(invocation[c])}

\* C14: a nested invocation of a registered action B is accepted as the value of a
\* parameter exactly if the identity of B's output is the identity of the parameter's
\* type and B's own invocation schema accepts it.
C14_ValidatorMembership ==
    \A c \in CallIds :
        RootDeclares(c) =>
            \A tv \in RootParams(c) :
                IsInvocation(tv[2]) =>
                    (ParamAccepts(entry[c], tv[1], tv[2])
                        <=> (OutputName(tv[2]) = stableName(tv[1]) /\ OwnSchemaAccepts(entry[c], tv[2])))

\* C14, the case: a nested invocation of an action with the parameter's identity is
\* given and accepted, and one of another identity is given
C14_Witness ==
    /\ RootDeclares("c1")
    /\ entry["c1"] = "index"
    /\ \E tv \in RootParams("c1") :
        /\ IsInvocation(tv[2])
        /\ OutputName(tv[2]) = stableName(tv[1])
        /\ ParamAccepts("index", tv[1], tv[2])


(***************************************************************************)
(* Construction of the registry (index.ts, and the description-keyed       *)
(* createActionsExecutor of lib/test.ts)                                   *)
(***************************************************************************)

\* getOutputSchemaName(schema) of lib/test.ts: the description of the schema, and a
\* throw when there is none (reading .description of a missing schema throws as well)
getOutputSchemaName(t) ==
    IF TypeDef(t).kind = "missing" \/ TypeDef(t).desc = <<>> THEN Fail ELSE Ok(TypeDef(t).desc)

RECURSIVE GroupByDescription(_, _)
\* the first loop of lib/test.ts: actionsByOutputName[outName].push(name); Fail when
\* getOutputSchemaName throws
GroupByDescription(reg, acc) ==
    IF reg = <<>> THEN Ok(acc)
    ELSE LET name == getOutputSchemaName(ActionDef(Head(reg)).output)
         IN  IF ~name.ok THEN Fail
             ELSE GroupByDescription(Tail(reg),
                        Put(acc, name.v, Append(Group(acc, name.v), Head(reg))))

\* the actions a registry is constructed from
ConstructActions == {"numberToString", "describeContact", "noOutput", "sendEmail"}

ConstructRegistries ==
    UNION {{reg \in [1..n -> ConstructActions] : \A i, j \in 1..n : reg[i] = reg[j] => i = j}
           : n \in 1..MaxActions}

\* createActionsExecutor(actions) of lib/test.ts
createActionsExecutorByDescription ==
    /\ exporter = "described"
    /\ construction = "none"
    /\ LET grouped == GroupByDescription(actions, <<>>)
       IN  /\ construction' = IF grouped.ok THEN "ok" ELSE "failed"
           /\ actionsByOutputName' = IF grouped.ok THEN grouped.v ELSE actionsByOutputName
    /\ UNCHANGED <<actions, exporter, enumValues, schemaNameCache, actionsByOutputType, documents,
                   actionSchemas, built>>
    /\ UNCHANGED <<pc, entry, invocation, stack, log, result>>

ConstructInit ==
    /\ exporter \in {"index", "described"}
    /\ actions \in ConstructRegistries
    /\ actionsByOutputName = <<>>
    /\ actionsByOutputType = <<>>
    /\ enumValues = DeclaredValues
    /\ schemaNameCache = [t \in TypeIds |-> <<>>]
    /\ documents = <<>>
    /\ construction = "none"
    /\ actionSchemas = {}
    /\ built = <<>>
    /\ pc = [c \in CallIds |-> "off"]
    /\ entry = [c \in CallIds |-> "index"]
    /\ invocation = [c \in CallIds |-> Invocation("doesNotExist", <<>>)]
    /\ stack = [c \in CallIds |-> <<>>]
    /\ log = [c \in CallIds |-> <<>>]
    /\ result = [c \in CallIds |-> NoResult]

ConstructNext == createActionsExecutor \/ createActionsExecutorByDescription

SpecConstruct == ConstructInit /\ [][ConstructNext]_vars

\* the output identity of a type can be computed: there is a schema, and, where the
\* identity is the description, a description
Computable(t) ==
    /\ TypeDef(t).kind # "missing"
    /\ exporter = "described" => TypeDef(t).desc # <<>>

\* C15: once createActionsExecutor has been called on a registry with an action whose
\* output identity cannot be computed (the output type is missing, or lacks the
\* description the identity is read from), the construction has failed: no executor
\* was returned.
C15_FailFast ==
    construction # "none" =>
        ((\E i \in 1..Len(actions) : ~Computable(ActionDef(actions[i]).output))
            => construction = "failed")

\* a registry with an action without an output type has been through createActionsExecutor
C15_Witness ==
    /\ construction # "none"
    /\ \E i \in 1..Len(actions) : TypeDef(ActionDef(actions[i]).output).kind = "missing"


(***************************************************************************)
(* Properties of the parameter validators                                  *)
(***************************************************************************)

\* literal values of every parameter type of the registries
ParamLiterals ==
    Literals \cup {GoogleContact(Str(Spell("abc"))), Str(Spell("red")), Undefined, Bool(TRUE)}

\* the parameters of the registered actions: <<action, key, type>>
RegisteredParams ==
    UNION {{<<a, f[1], f[2]>> : f \in Range(ActionDef(a).input)} : a \in Range(actions)}

\* the registered actions whose output has the identity of the type
Sharing(t) == Group(actionsByOutputName, stableName(t))

\* C16: for every registered action and every parameter, a literal value that the
\* parameter's declared type accepts is accepted by the parameter's validator, however
\* many registered actions have an output of the parameter's identity.
C16_LiteralAlternative ==
    (exporter = "index" /\ Built) =>
        \A p \in RegisteredParams : \A v \in ParamLiterals :
            Parse(p[3], v).ok => paramSchemaForType(Closure, p[3], v).ok

\* an executor has been built whose registry has a parameter with no action of its
\* identity and a parameter with two, each with a literal of its type
C16_Witness ==
    /\ exporter = "index" /\ Built
    /\ \E p, q \in RegisteredParams :
        /\ Len(Sharing(p[3])) = 0
        /\ Len(Sharing(q[3])) >= 2
        /\ \E v, w \in ParamLiterals : Parse(p[3], v).ok /\ Parse(q[3], w).ok


(***************************************************************************)
(* The nodes of a call and their states                                    *)
(***************************************************************************)

RECURSIVE NodePaths(_)
\* the paths of the nodes of a tree: the root, and below every parameter that carries
\* the field action
NodePaths(v) ==
    {<<>>} \cup
    (IF IsObject(Get(v, "params"))
     THEN UNION {{<<k>> \o q : q \in NodePaths(Get(Get(v, "params"), k))}
                 : k \in {x \in Range(Keys(Get(v, "params"))) :
                            LooksLikeInvocation(Get(Get(v, "params"), x))}}
     ELSE {})

\* the parameters of the node at a path that are nested invocations
ChildKeys(inv, path) ==
    IF IsObject(Get(NodeAt(inv, path), "params"))
    THEN {k \in Range(Keys(Get(NodeAt(inv, path), "params"))) :
            IsInvocation(Get(Get(NodeAt(inv, path), "params"), k))}
    ELSE {}

OnStack(c, path) == \E i \in 1..Len(stack[c]) : stack[c][i].path = path
FrameOf(c, path) == stack[c][CHOOSE i \in 1..Len(stack[c]) : stack[c][i].path = path]
Logged(c, path) == \E i \in 1..Len(log[c]) : log[c][i].path = path

\* The state of the node at a path.  A node fails with the throw that ends the call:
\* the node that threw and the nodes above it, whose executeAction it leaves.
NodeState(c, path) ==
    IF result[c].status = "err" /\ IsPrefix(path, result[c].at) THEN "Failed"
    ELSE IF OnStack(c, path)
         THEN CASE FrameOf(c, path).phase = "enter" -> "Unresolved"
                [] FrameOf(c, path).phase = "params" -> "Resolving-params"
                [] FrameOf(c, path).phase = "executing" -> "Validating"
         ELSE IF Logged(c, path) THEN "Executed" ELSE "Unresolved"

\* the steps of the node state machine; a failure ends a node wherever it is
NodeStep(s, t) ==
    \/ s = t
    \/ s = "Unresolved" /\ t = "Resolving-params"
    \/ s = "Resolving-params" /\ t = "Validating"
    \/ s = "Validating" /\ t = "Executed"
    \/ s \notin {"Executed", "Failed"} /\ t = "Failed"

\* the executor of the node at log[c][i] was invoked after those of its nested
\* invocations, with their outputs in its input
ChildrenFirst(c, i) ==
    \A k \in ChildKeys(invocation[c], log[c][i].path) :
        /\ NodeState(c, Append(log[c][i].path, k)) = "Executed"
        /\ \E j \in 1..(i - 1) :
            /\ log[c][j].path = Append(log[c][i].path, k)
            /\ \A f \in Range(ActionDef(log[c][i].action).input) :
                f[1] = k =>
                    Get(log[c][i].input, k) = Parse(f[2], Exec(log[c][j].action, log[c][j].input)).v

\* no node below an executed node is anything but executed
SubtreeExecuted(c, path) ==
    \A q \in NodePaths(invocation[c]) :
        (ProperPrefix(path, q) /\ \A n \in (Len(path) + 1)..Len(q) :
                                    SubSeq(q, n, n)[1] \in ChildKeys(invocation[c], SubSeq(q, 1, n - 1)))
            => NodeState(c, q) = "Executed"

\* C17: every node of a call moves only along Unresolved, Resolving-params, Validating,
\* Executed or Failed; an executor is invoked only when every nested invocation among
\* the node's params is Executed and its output is in the node's input; below an
\* Executed node every node is Executed.
C17_ChildrenBeforeParent ==
    /\ [][\A c \in CallIds : ChainCall(c) =>
            \A path \in NodePaths(invocation[c]) :
                NodeStep(NodeState(c, path), NodeState(c, path)')]_vars
    /\ [](\A c \in CallIds : ChainCall(c) =>
            /\ \A i \in 1..Len(log[c]) : ChildrenFirst(c, i)
            /\ \A path \in NodePaths(invocation[c]) :
                NodeState(c, path) = "Executed" => SubtreeExecuted(c, path))

\* a call has returned whose root has a nested invocation with one of its own
C17_Witness ==
    \E c \in CallIds :
        /\ ChainCall(c) /\ pc[c] = "done" /\ result[c].status = "ok"
        /\ NodeState(c, <<>>) = "Executed"
        /\ \E k \in ChildKeys(invocation[c], <<>>) : ChildKeys(invocation[c], <<k>>) # {}


RECURSIVE InvocationNodes(_)
\* the paths of the invocation nodes of a tree: the root and, below it, every
\* parameter that is a nested invocation
InvocationNodes(v) ==
    {<<>>} \cup
    (IF IsObject(Get(v, "params"))
     THEN UNION {{<<k>> \o q : q \in InvocationNodes(Get(Get(v, "params"), k))}
                 : k \in {x \in Range(Keys(Get(v, "params"))) :
                            IsInvocation(Get(Get(v, "params"), x))}}
     ELSE {})

\* C18: during one execute call no node's executor is invoked twice, and when the call
\* returns a value the executors invoked are those of the invocation nodes of the tree,
\* each once: as many invocations as nodes.
C18_AtMostOnce ==
    \A c \in CallIds :
        ChainCall(c) =>
            /\ \A i, j \in 1..Len(log[c]) : log[c][i].path = log[c][j].path => i = j
            /\ (pc[c] = "done" /\ result[c].status = "ok") =>
                /\ {log[c][i].path : i \in 1..Len(log[c])} = InvocationNodes(invocation[c])
                /\ Len(log[c]) = Cardinality(InvocationNodes(invocation[c]))
                /\ \A i \in 1..Len(log[c]) :
                        log[c][i].action = ActionOf(NodeAt(invocation[c], log[c][i].path))

\* a call on a tree of three invocation nodes has returned a value
C18_Witness ==
    \E c \in CallIds :
        /\ ChainCall(c) /\ pc[c] = "done" /\ result[c].status = "ok"
        /\ Cardinality(InvocationNodes(invocation[c])) = 3
        /\ Len(log[c]) = 3


(***************************************************************************)
(* Termination                                                             *)
(***************************************************************************)

\* Every step of a call is the continuation of an await on a settled promise or
\* straight-line code, which the runtime goes on to run; an executor that has been
\* called settles (the executors are taken to terminate).
Fairness == WF_vars(Next)

SpecLive == Init /\ [][Next]_vars /\ Fairness

\* C19: every call on a (finite) tree ends, with a returned value or a raised failure,
\* and at no time has it invoked an executor but for a node of the tree, and for no
\* node twice.
C19_Termination ==
    /\ \A c \in CallIds :
        (pc[c] = "called") ~> (pc[c] = "done" /\ result[c].status \in {"ok", "err"})
    /\ [](\A c \in CallIds :
            /\ \A i \in 1..Len(log[c]) : log[c][i].path \in NodePaths(invocation[c])
            /\ \A i, j \in 1..Len(log[c]) : log[c][i].path = log[c][j].path => i = j
            /\ Len(log[c]) <= Cardinality(NodePaths(invocation[c])))

\* a call on a tree of three invocation nodes has ended
C19_Witness ==
    \E c \in CallIds :
        /\ pc[c] = "done" /\ result[c].status \in {"ok", "err"}
        /\ Cardinality(InvocationNodes(invocation[c])) = 3
        /\ stack[c] = <<>>


\* the values copied into the inputs of the nodes being resolved: <<given, copied>>
CopiedParams(c) ==
    UNION {{<<Get(Get(stack[c][i].inv, "params"), stack[c][i].input[n][1]), stack[c][i].input[n][2]>>
            : n \in 1..Len(stack[c][i].input)}
           : i \in {j \in 1..Len(stack[c]) : stack[c][j].phase = "params"}}

\* C20: a parameter value is executed as a node only if it carries the field action and
\* that field names a registered action; any other value, a literal object with a field
\* named action included, goes into the node's input unchanged, raises no UnknownAction
\* and has no executor invoked for it.
C20_LiteralOrInvocation ==
    \A c \in CallIds :
        ChainCall(c) =>
            /\ \A i \in 2..Len(stack[c]) : IsInvocation(stack[c][i].inv)
            /\ \A gc \in CopiedParams(c) : ~IsInvocation(gc[1]) => gc[2] = gc[1]
            /\ result[c].err \in {"UnknownAction", "TypeError"} => result[c].at = <<>>
            /\ \A i \in 1..Len(log[c]) :
                    log[c][i].path = <<>> \/ IsInvocation(NodeAt(invocation[c], log[c][i].path))

\* The call C20 fails on: trackEvent({ event: { action: 'abc' } }) has ended with the
\* literal executed as a node
C20_LiteralExecuted ==
    \E c \in CallIds :
        /\ ChainCall(c) /\ pc[c] = "done"
        /\ invocation[c] = Invocation("trackEvent", << <<"event", ActionLiteral>> >>)
        /\ result[c].err \in {"UnknownAction", "TypeError"}
        /\ result[c].at = <<"event">>


(***************************************************************************)
(* Properties of the output grouping                                       *)
(***************************************************************************)

\* the place of an action in the registry
RegIndex(a) == CHOOSE i \in 1..Len(actions) : actions[i] = a

\* the groups of the grouping that list the action
GroupsOf(a) == {i \in 1..Len(Grouping) : a \in Range(Grouping[i][2])}

\* C21: after the registry is constructed every registered action is in exactly one
\* group of the output grouping, the one keyed by the identity of its output type; no
\* group is empty, no name is listed twice, every listed name is registered, and the
\* names of a group are in registration order.
C21_GroupingIsPartition ==
    Built =>
        /\ \A a \in Range(actions) :
            /\ Cardinality(GroupsOf(a)) = 1
            /\ \A i \in GroupsOf(a) : Grouping[i][1] = TypeIdentity(ActionDef(a).output)
        /\ \A i, j \in 1..Len(Grouping) : Grouping[i][1] = Grouping[j][1] => i = j
        /\ \A i \in 1..Len(Grouping) :
            /\ Grouping[i][2] # <<>>
            /\ Range(Grouping[i][2]) \subseteq Range(actions)
            /\ \A m, n \in 1..Len(Grouping[i][2]) :
                m < n => RegIndex(Grouping[i][2][m]) < RegIndex(Grouping[i][2][n])

\* a registry of three actions has been grouped, two of them in one group
C21_Witness ==
    /\ Built
    /\ Len(actions) = 3
    /\ \E i \in 1..Len(Grouping) : Len(Grouping[i][2]) = 2


(***************************************************************************)
(* Properties of the unions and references of the exported document        *)
(***************************************************************************)

\* the types met as an output or as a parameter of a registered action
ObservedTypes == Range(Outputs(actions) \o Params(actions))

\* the definition of a registered action in the document
DefinitionOf(doc, a) == MemberNamed(MemberNamed(SchemaOf(doc), Spell("definitions")), ActionKey(a))

\* the schema the document gives the parameter `key` of action a
ParamField(doc, a, key) ==
    MemberNamed(MemberNamed(MemberNamed(MemberNamed(DefinitionOf(doc, a), Spell("properties")),
                                        Spell("params")),
                            Spell("properties")),
                Spell(key))

\* the schema the exporter in use gives the type itself
DirectSchema(t) ==
    IF exporter = "index" THEN zodToJsonSchema(t, DeclaredValues) ELSE libZodToJsonSchema(t)

\* the references to the union definition of an identity
UnionRefs(id) == {Spell("#/definitions/") \o k : k \in IdentityKeys(id)}

\* the definitions have exactly one union for the identity, listing the actions with it
OneUnionFor(doc, id) ==
    Cardinality({i \in 1..Len(DefinitionsOf(doc)) :
                    /\ DefinitionsOf(doc)[i][1] \in IdentityKeys(id)
                    /\ UnionOfActions(DefinitionsOf(doc)[i][2], ActionsOf(id))}) = 1

\* the parameter is anyOf[direct schema], followed by the reference to the union of its
\* identity exactly when some registered action has that identity
AnyOfDirectAndUnion(field, t) ==
    /\ IsUnion(field)
    /\ Len(field.m[1][2].a) = (IF ActionsOf(TypeIdentity(t)) = {} THEN 1 ELSE 2)
    /\ field.m[1][2].a[1] = DirectSchema(t)
    /\ ActionsOf(TypeIdentity(t)) # {} =>
        /\ IsRef(field.m[1][2].a[2])
        /\ field.m[1][2].a[2].m[1][2].s \in UnionRefs(TypeIdentity(t))

\* C22: the exported document has one union definition for every identity met as an
\* output or as a parameter type, listing the actions with that output identity, and
\* every parameter is anyOf[direct schema, reference to the union of its identity], the
\* reference being there exactly when a registered action has the parameter's identity.
C22_UnionsAndReferences ==
    Built =>
        LET doc == Document
        IN  /\ \A t \in ObservedTypes : OneUnionFor(doc, TypeIdentity(t))
            /\ \A a \in Range(actions) : \A f \in Range(ActionDef(a).input) :
                    AnyOfDirectAndUnion(ParamField(doc, a, f[1]), f[2])

\* a registry has been exported in which one parameter has an action of its identity
\* and another has none
C22_Witness ==
    /\ Built
    /\ \E p, q \in RegisteredParams :
        /\ ActionsOf(TypeIdentity(p[3])) # {}
        /\ ActionsOf(TypeIdentity(q[3])) = {}


(***************************************************************************)
(* Registries whose actions feed each other, and the references of their   *)
(* documents                                                               *)
(***************************************************************************)

\* actions that feed each other: stringToNumber takes what numberToString returns and
\* returns what numberToString takes
FeedActions ==
    {"stringToNumber", "numberToString", "getFirstGoogleContactFromSearch", "describeContact",
     "sendEmail"}

FeedRegistries ==
    UNION {{reg \in [1..n -> FeedActions] : \A i, j \in 1..n : reg[i] = reg[j] => i = j}
           : n \in 1..MaxActions}

FeedInit ==
    /\ exporter \in {"index", "utils"}
    /\ actions \in FeedRegistries
    /\ actionsByOutputName = <<>>
    /\ actionsByOutputType = <<>>
    /\ enumValues = DeclaredValues
    /\ schemaNameCache = [t \in TypeIds |-> <<>>]
    /\ documents = <<>>
    /\ construction = "none"
    /\ actionSchemas = {}
    /\ built = <<>>
    /\ pc = [c \in CallIds |-> "off"]
    /\ entry = [c \in CallIds |-> "index"]
    /\ invocation = [c \in CallIds |-> Invocation("doesNotExist", <<>>)]
    /\ stack = [c \in CallIds |-> <<>>]
    /\ log = [c \in CallIds |-> <<>>]
    /\ result = [c \in CallIds |-> NoResult]

SpecFeed == FeedInit /\ [][ExportNext]_vars

RECURSIVE RefsIn(_)
\* the texts of all the references anywhere in a document
RefsIn(v) ==
    IF v.k \in {"json", "map"}
    THEN (IF IsRef(v) THEN {v.m[1][2].s} ELSE {})
         \cup UNION {RefsIn(v.m[i][2]) : i \in 1..Len(v.m)}
    ELSE IF v.k = "array" THEN UNION {RefsIn(v.a[i]) : i \in 1..Len(v.a)}
    ELSE {}

\* the reference names a key of the document's definitions
Resolves(doc, ref) ==
    \E i \in 1..Len(DefinitionsOf(doc)) : ref = Spell("#/definitions/") \o DefinitionsOf(doc)[i][1]

\* every member of the union is a reference
AllRefs(v) == \A i \in 1..Len(v.m[1][2].a) : IsRef(v.m[1][2].a[i])

\* the parameter is its type's own schema, or a union of it and of references only
AlternativesAreRefs(field, t) ==
    \/ field = DirectSchema(t)
    \/ /\ IsUnion(field)
       /\ field.m[1][2].a[1] = DirectSchema(t)
       /\ \A i \in 2..Len(field.m[1][2].a) : IsRef(field.m[1][2].a[i])

\* a feeds b: a parameter of b has the identity of a's output
Feeds(a, b) ==
    \E f \in Range(ActionDef(b).input) : TypeIdentity(f[2]) = TypeIdentity(ActionDef(a).output)

\* C23: in the exported document every $ref, wherever it stands (the execution
\* property, the unions, the parameters' anyOf), names an existing key of definitions;
\* the unions list references only, and every action offered for a parameter is a
\* reference, never an inlined copy of the action's definition.
C23_NoDanglingReferences ==
    Built =>
        LET doc == Document
        IN  /\ \A ref \in RefsIn(doc) : Resolves(doc, ref)
            /\ IsRef(TopUnion(doc)) \/ (IsUnion(TopUnion(doc)) /\ AllRefs(TopUnion(doc)))
            /\ \A i \in 1..Len(DefinitionsOf(doc)) :
                    IsUnion(DefinitionsOf(doc)[i][2]) => AllRefs(DefinitionsOf(doc)[i][2])
            /\ \A a \in Range(actions) : \A f \in Range(ActionDef(a).input) :
                    AlternativesAreRefs(ParamField(doc, a, f[1]), f[2])

\* a document has been exported for a registry in which two actions feed each other
\* and the parameters of both offer the other action
C23_Witness ==
    /\ Built
    /\ \E a, b \in Range(actions) :
        /\ a # b /\ Feeds(a, b) /\ Feeds(b, a)
        /\ \E f \in Range(ActionDef(a).input) : RefsIn(ParamField(Document, a, f[1])) # {}
        /\ \E f \in Range(ActionDef(b).input) : RefsIn(ParamField(Document, b, f[1])) # {}


(***************************************************************************)
(* The exported document against the chain schema of the same constructor  *)
(***************************************************************************)

\* a literal of the type
SampleLiteral(t) == CHOOSE v \in ParamLiterals : Parse(t, v).ok

\* an invocation of action b with a literal for every parameter
SampleInvocation(b) ==
    Invocation(b, [i \in 1..Len(ActionDef(b).input) |->
                        <<ActionDef(b).input[i][1], SampleLiteral(ActionDef(b).input[i][2])>>])

\* the references a schema lists, when it is a union
ListedRefs(v) == IF IsUnion(v) THEN Range(RefsOf(v)) ELSE {}

\* the document offers action b in this schema: the schema lists the reference to b, or
\* the reference to a union definition that lists it
Offers(doc, field, b) ==
    \/ RefTo(b) \in ListedRefs(field)
    \/ \E i \in 1..Len(DefinitionsOf(doc)) :
        /\ Spell("#/definitions/") \o DefinitionsOf(doc)[i][1] \in ListedRefs(field)
        /\ RefTo(b) \in ListedRefs(DefinitionsOf(doc)[i][2])

\* the constructor whose document the exporter in use writes: createActionsExecutor of
\* index.ts, or that of lib/types.ts, whose json_schema is createJsonSchema(actions)
ConstructorOf == IF exporter = "index" THEN "index" ELSE "types"

\* the chain schema of that constructor accepts v at the root
RootAccepts(v) ==
    IF exporter = "index" THEN ParseChain(Closure, v).ok
    ELSE createChainSchema(Closure, actions, v).ok

\* C24: for every registered action A, parameter p and action B the exported document
\* offers B at A.p, directly or through the union it refers to, exactly when the chain
\* schema of the same constructor accepts an invocation of B as the value of A.p; and
\* the top-level union lists exactly the actions whose invocations the chain schema
\* accepts at the root.
C24_ExporterAgreesWithValidator ==
    Built =>
        LET doc == Document
        IN  /\ \A p \in RegisteredParams : \A b \in ExportActions(exporter) :
                    Offers(doc, ParamField(doc, p[1], p[2]), b)
                        <=> ParamAccepts(ConstructorOf, p[3], SampleInvocation(b))
            /\ \A b \in ExportActions(exporter) :
                    Offers(doc, TopUnion(doc), b) <=> RootAccepts(SampleInvocation(b))

\* a document has been exported that offers one registered action at a parameter and
\* does not offer another
C24_Witness ==
    /\ Built
    /\ \E p \in RegisteredParams : \E b, d \in Range(actions) :
        /\ Offers(Document, ParamField(Document, p[1], p[2]), b)
        /\ ~Offers(Document, ParamField(Document, p[1], p[2]), d)


(***************************************************************************)
(* The effect of computing an identity on the type it is computed for      *)
(***************************************************************************)

RECURSIVE generateSignatureOn(_, _)
\* generateSignature(schema) as it reads the schema now: the values of an enum are the
\* array def.values of the heap
generateSignatureOn(t, heap) ==
    CASE TypeDef(t).kind = "enum" -> <<"e", "n", "u", "m", "_">> \o Join(Sort(heap[t]), <<"_">>)
      [] TypeDef(t).kind = "object" ->
            <<"o", "b", "j", "e", "c", "t", "_">>
            \o Join(Sort([i \in 1..Len(TypeDef(t).fields) |->
                            Spell(TypeDef(t).fields[i][1]) \o <<"-">>
                            \o generateSignatureOn(TypeDef(t).fields[i][2], heap)]),
                    <<"_">>)
      [] OTHER -> generateSignature(t)

\* the document of index.ts as it reads when every enum is as its author declared it
DocumentAsDeclared ==
    JSONStringify(response_format(actions, GroupByOutput(actions, <<>>), DeclaredValues),
                  NoReplacer, DeclaredValues)

\* C25: computing the identity of a type leaves the type as it was declared (the values
\* of every enum are in the declared order, and the exporter writes them in that
\* order), and the identity computed for a type is the same string before and after
\* other identity computations.
C25_SignaturePurity ==
    /\ enumValues = DeclaredValues
    /\ (Built /\ exporter = "index") => \A i \in 1..Len(documents) : documents[i] = DocumentAsDeclared
    /\ \A t \in ObservedTypes :
        /\ generateSignatureOn(t, enumValues) = generateSignatureOn(t, DeclaredValues)
        /\ getStableTypeName(t, schemaNameCache) = getStableTypeName(t, [s \in TypeIds |-> <<>>])

\* the identity of an enum whose values were not declared in sorted order has been
\* computed, and the document shows the values sorted
C25_EnumReordered ==
    /\ Built /\ exporter = "index"
    /\ \E p \in RegisteredParams :
        /\ TypeDef(p[3]).kind = "enum"
        /\ enumValues[p[3]] # TypeDef(p[3]).values
    /\ documents[1] # DocumentAsDeclared


(***************************************************************************)
(* Registries of actions whose output types differ in structure            *)
(***************************************************************************)

\* Actions whose outputs differ in their enum values, in the nesting of their fields
\* and in their field names.  Those of lib/utils.ts have object schemas, the ones its
\* getStableTypeName hashes.
SignatureActions(x) ==
    {"nestInside", "nestBeside", "twoFields", "oneField", "describeContact"}
    \cup (IF x = "index" THEN {"enumOfTwo", "enumOfOne"} ELSE {})

SignatureRegistries(x) ==
    UNION {{reg \in [1..n -> SignatureActions(x)] : \A i, j \in 1..n : reg[i] = reg[j] => i = j}
           : n \in 1..MaxActions}

SignatureInit ==
    /\ exporter \in {"index", "utils"}
    /\ actions \in SignatureRegistries(exporter)
    /\ actionsByOutputName = <<>>
    /\ actionsByOutputType = <<>>
    /\ enumValues = DeclaredValues
    /\ schemaNameCache = [t \in TypeIds |-> <<>>]
    /\ documents = <<>>
    /\ construction = "none"
    /\ actionSchemas = {}
    /\ built = <<>>
    /\ pc = [c \in CallIds |-> "off"]
    /\ entry = [c \in CallIds |-> "index"]
    /\ invocation = [c \in CallIds |-> Invocation("doesNotExist", <<>>)]
    /\ stack = [c \in CallIds |-> <<>>]
    /\ log = [c \in CallIds |-> <<>>]
    /\ result = [c \in CallIds |-> NoResult]

SpecSignature == SignatureInit /\ [][ExportNext]_vars

\* C26: two types that differ in structure (other field names, other field types, other
\* literal or enum values, other nesting) have different signatures, whatever
\* characters their field names and enum values contain, and two registered actions
\* whose output types differ in structure are never in one output group.
C26_SignatureInjective ==
    Built =>
        \A a, b \in Range(actions) :
            ~SameShape(ActionDef(a).output, ActionDef(b).output) =>
                /\ exporter = "index"
                    => generateSignature(ActionDef(a).output) # generateSignature(ActionDef(b).output)
                /\ TypeIdentity(ActionDef(a).output) # TypeIdentity(ActionDef(b).output)
                /\ ~SameGroup(a, b)

\* two registered actions whose output types differ in structure are in one output group
C26_DifferentShapesGrouped ==
    /\ Built
    /\ \E a, b \in Range(actions) :
        /\ ~SameShape(ActionDef(a).output, ActionDef(b).output)
        /\ SameGroup(a, b)


(***************************************************************************)
(* Registries with types the identity has no case for                      *)
(***************************************************************************)

\* Actions with types that fall to 'unknown': for generateSignature of index.ts an
\* optional, a date and a missing schema; for getStableTypeName of lib/utils.ts every
\* type that is no string, number, boolean, void or object, here the enums.
UnknownActions(x) ==
    IF x = "index" THEN {"tint", "today", "noOutput", "paint", "numberToString"}
    ELSE {"paint", "enumOfTwo", "enumOfOne", "describeContact", "numberToString"}

UnknownRegistries(x) ==
    UNION {{reg \in [1..n -> UnknownActions(x)] : \A i, j \in 1..n : reg[i] = reg[j] => i = j}
           : n \in 1..MaxActions}

UnknownInit ==
    /\ exporter \in {"index", "utils"}
    /\ actions \in UnknownRegistries(exporter)
    /\ actionsByOutputName = <<>>
    /\ actionsByOutputType = <<>>
    /\ enumValues = DeclaredValues
    /\ schemaNameCache = [t \in TypeIds |-> <<>>]
    /\ documents = <<>>
    /\ construction = "none"
    /\ actionSchemas = {}
    /\ built = <<>>
    /\ pc = [c \in CallIds |-> "off"]
    /\ entry = [c \in CallIds |-> "index"]
    /\ invocation = [c \in CallIds |-> Invocation("doesNotExist", <<>>)]
    /\ stack = [c \in CallIds |-> <<>>]
    /\ log = [c \in CallIds |-> <<>>]
    /\ result = [c \in CallIds |-> NoResult]

SpecUnknown == UnknownInit /\ [][ExportNext]_vars

\* the identity of the types that the exporter in use has no case for
UnknownIdentity ==
    IF exporter = "index" THEN <<"S", "c", "h", "e", "m", "a", "_">> \o shortHash(Spell("unknown"))
    ELSE Spell("unknown")

\* the exporter in use has no case for the type
Unsupported(t) == TypeIdentity(t) = UnknownIdentity

\* action b, of an unsupported output type, against a parameter of another unsupported type
UnrelatedUnknowns(p, b) ==
    /\ Unsupported(p[3]) /\ Unsupported(ActionDef(b).output)
    /\ p[3] # ActionDef(b).output

\* C27: the types that fall to the 'unknown' signature form no output group: no group
\* is kept under the unknown identity, and an action whose output type is unsupported
\* is offered for no parameter of another unsupported type, neither by the exported
\* document nor by the chain schema.
C27_UnknownFormsNoGroup ==
    Built =>
        /\ \A i \in 1..Len(Grouping) : Grouping[i][1] # UnknownIdentity
        /\ \A p \in RegisteredParams : \A b \in Range(actions) :
                UnrelatedUnknowns(p, b) =>
                    /\ ~Offers(Document, ParamField(Document, p[1], p[2]), b)
                    /\ ~ParamAccepts(ConstructorOf, p[3], SampleInvocation(b))

\* an unsupported parameter has been exported with an action of another unsupported
\* output type as its provider, and the chain schema accepts that action there
C27_UnknownProvider ==
    /\ Built
    /\ \E p \in RegisteredParams : \E b \in Range(actions) :
        /\ UnrelatedUnknowns(p, b)
        /\ Offers(Document, ParamField(Document, p[1], p[2]), b)
        /\ ParamAccepts(ConstructorOf, p[3], SampleInvocation(b))


(***************************************************************************)
(* Several executions in flight at once                                    *)
(***************************************************************************)

\* The invocations of the concurrent calls: one, two and three nodes that return, an
\* executor that raises, an input its action rejects, an unregistered action.
ConcurrentInvocations ==
    {Invocation("numberToString", << <<"num", Num(3)>> >>),
     Invocation("stringToNumber",
                << <<"text", Invocation("numberToString", << <<"num", Num(3)>> >>)>> >>),
     Invocation("numberToString",
                << <<"num", Invocation("stringToNumber",
                        << <<"text", Invocation("numberToString", << <<"num", Num(3)>> >>)>> >>)>> >>),
     Invocation("lookupGoogleContact", << <<"id", Str(Spell("abc"))>> >>),
     Invocation("stringToNumber", << <<"text", Num(3)>> >>),
     Invocation("paint", << <<"color", Str(Spell("red"))>> >>),
     Invocation("doesNotExist", <<>>)}

\* the registry of the concurrent calls: one of its parameters is an enum
ConcurrentActions == ExecActions \o <<"paint">>

\* The concurrent calls are made through execute of index.ts and of lib/types.ts.
ConcurrentInit ==
    /\ actions = ConcurrentActions
    /\ actionsByOutputName = GroupByOutput(ConcurrentActions, <<>>)
    /\ pc = [c \in CallIds |-> "called"]
    /\ entry \in [CallIds -> {"index", "types"}]
    /\ invocation \in [CallIds -> ConcurrentInvocations]
    /\ stack = [c \in CallIds |-> <<>>]
    /\ log = [c \in CallIds |-> <<>>]
    /\ result = [c \in CallIds |-> NoResult]
    /\ exporter = "index"
    /\ enumValues = SortedByAll(Outputs(ConcurrentActions) \o Params(ConcurrentActions), DeclaredValues)
    /\ schemaNameCache = [t \in TypeIds |-> <<>>]
    /\ actionsByOutputType = <<>>
    /\ documents = <<>>
    /\ construction = "ok"
    /\ actionSchemas = Range(actions)
    /\ built = <<>>

\* a step of any of the calls in flight: the calls interleave at every step
ConcurrentNext ==
    \E c \in CallIds :
        \/ execute(c)
        \/ typesExecute(c)
        \/ executeAction(c)
        \/ resolveParam(c)
        \/ validateAndInvoke(c)
        \/ executorSettles(c)

SpecConcurrent == ConcurrentInit /\ [][ConcurrentNext]_vars

RECURSIVE RunNode(_, _, _)
RECURSIVE RunParams(_, _, _, _, _, _)
\* The node's executor is called with the input built from its params
RunExecutor(e, path, inv, input, calls) ==
    LET action == Lookup(actions, Get(inv, "action"))
    IN  IF action = "" THEN [res |-> Raised("TypeError", path), log |-> calls]
        ELSE LET r == ParseInput(action, Obj(input))
             IN IF ~r.ok THEN [res |-> Raised("InputValidationError", path), log |-> calls]
                ELSE [res |-> IF Throws(action, r.v) THEN Raised("ExecutionError", path)
                              ELSE Returned(Exec(action, r.v)),
                      log |-> Append(calls, [path |-> path, action |-> action, input |-> r.v])]

\* the loop over the keys of params, then the executor; a failure below ends the node
RunParams(e, path, inv, keys, input, calls) ==
    IF keys = <<>> THEN RunExecutor(e, path, inv, input, calls)
    ELSE LET param == Get(Get(inv, "params"), Head(keys))
         IN IF LooksLikeInvocation(param)
            THEN LET below == RunNode(e, Append(path, Head(keys)), param)
                 IN IF below.res.status = "err"
                    THEN [res |-> below.res, log |-> calls \o below.log]
                    ELSE RunParams(e, path, inv, Tail(keys),
                                   Append(input, <<Head(keys), below.res.v>>), calls \o below.log)
            ELSE RunParams(e, path, inv, Tail(keys), Append(input, <<Head(keys), param>>), calls)

\* executeAction(invocation) run from its first line to its return, nothing else running
RunNode(e, path, inv) ==
    IF e = "index" /\ Lookup(actions, Get(inv, "action")) = ""
    THEN [res |-> Raised("UnknownAction", path), log |-> <<>>]
    ELSE RunParams(e, path, inv,
                   IF IsObject(Get(inv, "params")) THEN Keys(Get(inv, "params")) ELSE <<>>,
                   <<>>, <<>>)

\* what a call of entry point e on inv returns or raises, and the executor invocations
\* it makes, when it is the only call
RunAlone(e, inv) ==
    IF e = "index"
    THEN LET parsed == ParseChain(Closure, inv)
         IN IF parsed.ok THEN RunNode(e, <<>>, parsed.v)
            ELSE [res |-> Raised("ChainShapeError", <<>>), log |-> <<>>]
    ELSE RunNode(e, <<>>, inv)

\* C28: with several execute calls in flight on one executor, interleaved at every
\* step, no step of a call writes the registry, the output grouping, the schemas or the
\* exported documents; every step is a step of one call and leaves the other calls as
\* they are; and what every call returns or raises, and the sequence of its executor
\* invocations, are what the call gives when run alone.
C28_IndependentExecutions ==
    /\ [][/\ registryVars' = registryVars
          /\ \E c \in CallIds : \A d \in CallIds \ {c} :
                /\ pc'[d] = pc[d] /\ stack'[d] = stack[d]
                /\ log'[d] = log[d] /\ result'[d] = result[d]]_vars
    /\ [](\A c \in CallIds :
            /\ IsPrefix(log[c], RunAlone(entry[c], invocation[c]).log)
            /\ pc[c] = "done" =>
                /\ result[c] = RunAlone(entry[c], invocation[c]).res
                /\ log[c] = RunAlone(entry[c], invocation[c]).log)

\* two calls made together have both ended, one with a value after two executor
\* invocations and one with a failure after one; the enum of the registry is sorted
C28_Witness ==
    /\ pc["c1"] = "done" /\ pc["c2"] = "done"
    /\ Len(log["c1"]) >= 2 /\ Len(log["c2"]) >= 1
    /\ result["c1"].status = "ok" /\ result["c2"].status = "err"
    /\ enumValues # DeclaredValues


(***************************************************************************)
(* The assembly of the action schemas (index.ts): a lazy schema for every  *)
(* action first, the bodies when a schema is first used                    *)
(***************************************************************************)

\* Actions that feed each other (stringToNumber and numberToString) and one that
\* feeds itself (trim)
AssembleActions ==
    {"stringToNumber", "numberToString", "trim", "sendEmail", "getFirstGoogleContactFromSearch"}

AssembleRegistries ==
    UNION {{reg \in [1..n -> AssembleActions] : \A i, j \in 1..n : reg[i] = reg[j] => i = j}
           : n \in 1..MaxActions}

AssembleInit ==
    /\ exporter = "index"
    /\ actions \in AssembleRegistries
    /\ actionsByOutputName = <<>>
    /\ actionsByOutputType = <<>>
    /\ enumValues = DeclaredValues
    /\ schemaNameCache = [t \in TypeIds |-> <<>>]
    /\ documents = <<>>
    /\ construction = "none"
    /\ actionSchemas = {}
    /\ built = <<>>
    /\ pc = [c \in CallIds |-> "off"]
    /\ entry = [c \in CallIds |-> "index"]
    /\ invocation = [c \in CallIds |-> Invocation("doesNotExist", <<>>)]
    /\ stack = [c \in CallIds |-> <<>>]
    /\ log = [c \in CallIds |-> <<>>]
    /\ result = [c \in CallIds |-> NoResult]

\* The lazy schema of an action is used (a parse reaches it): its builder runs.
buildActionSchema(name) ==
    /\ construction = "ok" /\ exporter = "index"
    /\ name \in actionSchemas
    /\ built' = Put(built, name, BuiltParams(name, actionsByOutputName, actionSchemas))
    /\ UNCHANGED <<actions, actionsByOutputName, exporter, enumValues, schemaNameCache,
                   actionsByOutputType, documents, construction, actionSchemas>>
    /\ UNCHANGED <<pc, entry, invocation, stack, log, result>>

AssembleNext == createActionsExecutor \/ \E name \in AssembleActions : buildActionSchema(name)

SpecAssemble == AssembleInit /\ [][AssembleNext]_vars

\* the actions a built schema offers at a parameter
OfferedIn(name, key) ==
    LET params == built[CHOOSE i \in 1..Len(built) : built[i][1] = name][2]
    IN  params[CHOOSE j \in 1..Len(params) : params[j][1] = key][2]

IsBuilt(name) == \E i \in 1..Len(built) : built[i][1] = name

\* C29: every registered action has its lazy schema before the body of any action
\* schema is built, and every body that has been built offers, at every parameter,
\* every action of the parameter's output group, each of them with a schema: nothing
\* is dropped for not being built yet, among actions that feed each other or
\* themselves included.
C29_LazyAssembly ==
    /\ built # <<>> => actionSchemas = Range(actions)
    /\ \A name \in Range(actions) : IsBuilt(name) =>
        \A f \in Range(ActionDef(name).input) :
            /\ OfferedIn(name, f[1]) = Group(actionsByOutputName, stableName(f[2]))
            /\ Range(OfferedIn(name, f[1])) = ActionsOf(TypeIdentity(f[2]))
            /\ Range(OfferedIn(name, f[1])) \subseteq actionSchemas

\* the schemas of two actions that feed each other, registered in either order, and of
\* one that feeds itself have been built, each offering the other and itself
C29_Witness ==
    /\ IsBuilt("stringToNumber") /\ IsBuilt("numberToString") /\ IsBuilt("trim")
    /\ "numberToString" \in Range(OfferedIn("stringToNumber", "text"))
    /\ "stringToNumber" \in Range(OfferedIn("numberToString", "num"))
    /\ "trim" \in Range(OfferedIn("trim", "text"))


(***************************************************************************)
(* Registries with actions named as the exporters name their definitions   *)
(***************************************************************************)

KeyActions == {"ActionUnion", "ActionUnionThatOutputs_string", "numberToString", "sendEmail"}

KeyRegistries ==
    UNION {{reg \in [1..n -> KeyActions] : \A i, j \in 1..n : reg[i] = reg[j] => i = j}
           : n \in 1..MaxActions}

KeyInit ==
    /\ exporter \in {"index", "utils"}
    /\ actions \in KeyRegistries
    /\ actionsByOutputName = <<>>
    /\ actionsByOutputType = <<>>
    /\ enumValues = DeclaredValues
    /\ schemaNameCache = [t \in TypeIds |-> <<>>]
    /\ documents = <<>>
    /\ construction = "none"
    /\ actionSchemas = {}
    /\ built = <<>>
    /\ pc = [c \in CallIds |-> "off"]
    /\ entry = [c \in CallIds |-> "index"]
    /\ invocation = [c \in CallIds |-> Invocation("doesNotExist", <<>>)]
    /\ stack = [c \in CallIds |-> <<>>]
    /\ log = [c \in CallIds |-> <<>>]
    /\ result = [c \in CallIds |-> NoResult]

SpecKeys == KeyInit /\ [][ExportNext]_vars

\* the keys the exporter in use writes: for the actions, for the output identities, and
\* for the union of all actions (index.ts writes that union in place, under no key)
ActionKeys == {ActionKey(a) : a \in Range(actions)}
IdentityUnionKeys ==
    {IF exporter = "index" THEN Grouping[i][1] ELSE Spell("ActionUnionThatOutputs_") \o Grouping[i][1]
        : i \in 1..Len(Grouping)}
TopUnionKeys == IF exporter = "index" THEN {} ELSE {Spell("ActionUnion")}

\* the definition under the action's key is the action's: its `action` is the name
DefinesAction(doc, a) ==
    /\ \E i \in 1..Len(DefinitionOf(doc, a).m) : KeyText(DefinitionOf(doc, a), i) = Spell("properties")
    /\ MemberNamed(MemberNamed(MemberNamed(DefinitionOf(doc, a), Spell("properties")),
                               Spell("action")),
                   Spell("const")) = Word(a)

\* C30: the definition keys of the actions, of the unions per output identity and of
\* the union of all actions are pairwise distinct, the document has one definition for
\* each of them, and under the key of every action stands that action's definition.
C30_KeysNeverCollide ==
    Built =>
        /\ ActionKeys \cap IdentityUnionKeys = {}
        /\ ActionKeys \cap TopUnionKeys = {}
        /\ IdentityUnionKeys \cap TopUnionKeys = {}
        /\ Len(DefinitionsOf(Document))
                = Len(actions) + Cardinality(IdentityUnionKeys) + Cardinality(TopUnionKeys)
        /\ \A a \in Range(actions) : DefinesAction(Document, a)

\* the definition of a registered action has been overwritten by a union
C30_Overwritten ==
    /\ Built
    /\ \E a \in Range(actions) : IsUnion(DefinitionOf(Document, a))

====
